---------------------------- MODULE Spec2Model ----------------------------
(***************************************************************************)
(* Model of the 2025-nea election dashboard: App (composition root),       *)
(* CandidatePanel/SearchBar (search index, query, dropdown), MapView       *)
(* (tooltip, MapZoomController) and ChoroplethLayer (polygon layer, style  *)
(* policy, hover handlers).                                                *)
(*                                                                         *)
(* Conventions                                                             *)
(*  - A JS string that the code inspects character by character (names,    *)
(*    labels, query text, hex colours) is a sequence of one-character      *)
(*    strings.  Identifiers that are only compared or concatenated into a  *)
(*    property key (candidate ids, "v_s01") are TLA+ strings.              *)
(*  - A JS object property that may be absent (feature.properties,         *)
(*    feature.geometry, props.av, props.v_<id>, result.barangay) is a      *)
(*    record field that may be missing from the record's DOMAIN.           *)
(*  - null (searchSelection, hoveredProps) is the record NULL.             *)
(*  - Fractional numbers are exact: a share is a reduced fraction          *)
(*    [n, d]; opacities and weights are kept in hundredths.  The colour    *)
(*    arithmetic is carried out in exact real arithmetic (IEEE rounding    *)
(*    of the intermediate doubles is not modelled).                        *)
(***************************************************************************)
EXTENDS Integers, Sequences, FiniteSets, TLC

(***************************************************************************)
(* Generic helpers                                                         *)
(***************************************************************************)
NULL == [type |-> "null"]

Range(s) == {s[i] : i \in DOMAIN s}

RECURSIVE GCD(_, _)
GCD(a, b) == IF b = 0 THEN a ELSE GCD(b, a % b)

\* the exact number n/d (d > 0, n >= 0) in lowest terms
Frac(n, d) == LET g == GCD(n, d) IN [n |-> n \div g, d |-> d \div g]

FracGT(x, y) == x.n * y.d > y.n * x.d

FracDiv(x, y) == Frac(x.n * y.d, x.d * y.n)

Zero == Frac(0, 1)

One == Frac(1, 1)

\* a/b <= c/d for a, c >= 0 and b, d > 0, by comparing the continued-fraction
\* expansions (no product is formed, so nothing overflows)
RECURSIVE QLeq(_, _, _, _)
QLeq(a, b, c, d) ==
    IF a \div b # c \div d THEN a \div b < c \div d
    ELSE IF a % b = 0 THEN TRUE
    ELSE IF c % d = 0 THEN FALSE
    ELSE QLeq(d, c % d, b, a % b)

\* the largest k in [lo, hi) with k*k <= m*n/d, given that lo is one (n, d > 0)
RECURSIVE FloorSqrtIn(_, _, _, _, _)
FloorSqrtIn(m, n, d, lo, hi) ==
    IF hi - lo <= 1 THEN lo
    ELSE LET mid == (lo + hi) \div 2
         IN IF QLeq(mid * mid, n, m, d)
            THEN FloorSqrtIn(m, n, d, mid, hi)
            ELSE FloorSqrtIn(m, n, d, lo, mid)

\* the largest k in [lo, hi) with k*k < m*n/d, given that lo is one (n, d > 0)
RECURSIVE BelowSqrtIn(_, _, _, _, _)
BelowSqrtIn(m, n, d, lo, hi) ==
    IF hi - lo <= 1 THEN lo
    ELSE LET mid == (lo + hi) \div 2
         IN IF ~QLeq(m, d, mid * mid, n)
            THEN BelowSqrtIn(m, n, d, mid, hi)
            ELSE BelowSqrtIn(m, n, d, lo, mid)

\* floor(sqrt(m*n/d)) and ceil(sqrt(m*n/d)) for m >= 0 and 0 <= n/d <= 1
FloorSqrtQ(m, n, d) == IF m = 0 \/ n = 0 THEN 0 ELSE FloorSqrtIn(m, n, d, 0, 46341)

CeilSqrtQ(m, n, d) == IF m = 0 \/ n = 0 THEN 0 ELSE BelowSqrtIn(m, n, d, 0, 46341) + 1

(***************************************************************************)
(* Strings as character sequences                                          *)
(***************************************************************************)
UpperChars == <<"A", "B", "C", "D", "E", "F", "G", "H", "I", "J", "K", "L", "M",
                "N", "O", "P", "Q", "R", "S", "T", "U", "V", "W", "X", "Y", "Z">>

LowerChars == <<"a", "b", "c", "d", "e", "f", "g", "h", "i", "j", "k", "l", "m",
                "n", "o", "p", "q", "r", "s", "t", "u", "v", "w", "x", "y", "z">>

DigitChars == <<"0", "1", "2", "3", "4", "5", "6", "7", "8", "9">>

WhiteSpace == {" ", "\t", "\n"}

IndexOf(ch, s) == IF ch \in Range(s) THEN CHOOSE i \in DOMAIN s : s[i] = ch ELSE 0

\* String.prototype.toLowerCase
ToLowerChar(ch) == IF ch \in Range(UpperChars) THEN LowerChars[IndexOf(ch, UpperChars)] ELSE ch

ToLowerCase(s) == [i \in DOMAIN s |-> ToLowerChar(s[i])]

\* String.prototype.trim
RECURSIVE TrimStart(_)
TrimStart(s) == IF s # <<>> /\ Head(s) \in WhiteSpace THEN TrimStart(Tail(s)) ELSE s

RECURSIVE TrimEnd(_)
TrimEnd(s) ==
    IF s # <<>> /\ s[Len(s)] \in WhiteSpace THEN TrimEnd(SubSeq(s, 1, Len(s) - 1)) ELSE s

Trim(s) == TrimEnd(TrimStart(s))

\* String.prototype.split(/\s+/): maximal runs of whitespace separate the
\* parts; a leading or trailing run yields an empty first or last part.
RECURSIVE SplitFrom(_, _, _)
SplitFrom(s, cur, inGap) ==
    IF s = <<>> THEN <<cur>>
    ELSE IF Head(s) \in WhiteSpace
         THEN IF inGap THEN SplitFrom(Tail(s), cur, TRUE)
              ELSE <<cur>> \o SplitFrom(Tail(s), <<>>, TRUE)
         ELSE SplitFrom(Tail(s), Append(cur, Head(s)), FALSE)

SplitWs(s) == SplitFrom(s, <<>>, FALSE)

\* a plausible slip: startsWith instead of includes
IncludesAsStartsWith(s, t) == Len(t) <= Len(s) /\ SubSeq(s, 1, Len(t)) = t

\* String.prototype.includes
Includes(s, t) ==
    \E i \in 0..(Len(s) - Len(t)) : SubSeq(s, i + 1, i + Len(t)) = t

\* String.prototype.localeCompare on lowercased labels: lexicographic on the
\* collation rank of the characters (white space < punctuation < digits <
\* letters), a proper prefix first.
Collation == <<" ", ",", "|", "#">> \o DigitChars \o LowerChars

CollationRank(ch) == IndexOf(ToLowerChar(ch), Collation)

RECURSIVE LocaleCompare(_, _)
LocaleCompare(a, b) ==
    IF a = <<>> THEN (IF b = <<>> THEN 0 ELSE -1)
    ELSE IF b = <<>> THEN 1
    ELSE IF CollationRank(Head(a)) < CollationRank(Head(b)) THEN -1
    ELSE IF CollationRank(Head(a)) > CollationRank(Head(b)) THEN 1
    ELSE LocaleCompare(Tail(a), Tail(b))

\* Array.prototype.sort((a, b) => a.label.localeCompare(b.label)).  The sort
\* is stable, so its result is determined: an element goes behind the elements
\* before it whose label is not greater.
InsertByLabel(sorted, x) ==
    LET k == Cardinality({j \in DOMAIN sorted : LocaleCompare(sorted[j].label, x.label) <= 0})
    IN SubSeq(sorted, 1, k) \o <<x>> \o SubSeq(sorted, k + 1, Len(sorted))

RECURSIVE SortByLabel(_)
SortByLabel(s) ==
    IF s = <<>> THEN <<>>
    ELSE InsertByLabel(SortByLabel(SubSeq(s, 1, Len(s) - 1)), s[Len(s)])

(***************************************************************************)
(* types.ts: a feature is [properties (optional), geometry (optional)];    *)
(* properties is a BarangayProperties record [p, m, b, rv, av (optional),  *)
(* v_<candidateId> (optional)]; a geometry is represented by its bounding  *)
(* box [south, west, north, east].                                         *)
(***************************************************************************)
HasProps(feat) == "properties" \in DOMAIN feat

HasGeometry(feat) == "geometry" \in DOMAIN feat

\* (props[`v_${cId}`] as number) ?? 0
VotesOf(props, cId) ==
    LET key == "v_" \o cId IN IF key \in DOMAIN props THEN props[key] ELSE 0

\* a plausible slip: props.av ?? 1
ActualVotersOfOne(props) == IF "av" \in DOMAIN props THEN props.av ELSE 1

\* props.av ?? 0
ActualVotersOf(props) == IF "av" \in DOMAIN props THEN props.av ELSE 0

(***************************************************************************)
(* ChoroplethLayer.tsx: colour scales                                      *)
(***************************************************************************)
Rgb(r, g, b) == [r |-> r, g |-> g, b |-> b]

\* the string "rgb(NaN, NaN, NaN)" (Math.sqrt of a negative number)
NaNRgb == [nan |-> TRUE]

HexDigits == DigitChars \o <<"a", "b", "c", "d", "e", "f">>

IsHexChar(ch) == ToLowerChar(ch) \in Range(HexDigits)

\* parseInt(pair, 16)
ParseHexPair(c1, c2) ==
    16 * (IndexOf(ToLowerChar(c1), HexDigits) - 1) + (IndexOf(ToLowerChar(c2), HexDigits) - 1)

DefaultRgb == <<251, 146, 60>>

hexToRgb(hex) ==
    LET body == IF hex # <<>> /\ hex[1] = "#" THEN Tail(hex) ELSE hex
        result == Len(body) = 6 /\ \A i \in 1..6 : IsHexChar(body[i])
    IN IF result
       THEN <<ParseHexPair(body[1], body[2]), ParseHexPair(body[3], body[4]),
              ParseHexPair(body[5], body[6])>>
       ELSE DefaultRgb

\* Math.min(share, 1)
Min1(share) == IF FracGT(share, One) THEN One ELSE share

\* a plausible slip: Math.floor instead of Math.round
SingleHueChannelFloor(c, s) == (8 * c + FloorSqrtQ(8464 * c * c, s.n, s.d)) \div 100

\* Math.round(c * (0.08 + t * 0.92)) with t = sqrt(s), s = n/d in [0,1]:
\* floor((8c + 50 + 92c*t) / 100), and floor(92c*t) = floor(sqrt(8464 c^2 n / d))
SingleHueChannel(c, s) == (8 * c + 50 + FloorSqrtQ(8464 * c * c, s.n, s.d)) \div 100

getFillColor(share, color) ==
    LET rgb == hexToRgb(color)
        s == Min1(share)
    IN IF s.n < 0 THEN NaNRgb
       ELSE Rgb(SingleHueChannel(rgb[1], s), SingleHueChannel(rgb[2], s),
                SingleHueChannel(rgb[3], s))

\* [position (in hundredths), r, g, b]
MULTI_HUE_STOPS ==
    << <<0, 10, 10, 30>>, <<15, 15, 60, 90>>, <<30, 20, 120, 120>>, <<45, 40, 170, 100>>,
       <<60, 160, 200, 40>>, <<75, 240, 180, 30>>, <<90, 250, 100, 40>>, <<100, 255, 240, 220>> >>

\* t >= pos/100 and t <= pos/100 for t = sqrt(s)
TGe(s, pos) == 10000 * s.n >= pos * pos * s.d

TLe(s, pos) == 10000 * s.n <= pos * pos * s.d

\* a plausible slip: the scan tests only the lower position (t >= lo)
RECURSIVE FindStopsLowerOnly(_, _)
FindStopsLowerOnly(s, i) ==
    IF i > Len(MULTI_HUE_STOPS) - 1
    THEN <<MULTI_HUE_STOPS[1], MULTI_HUE_STOPS[Len(MULTI_HUE_STOPS)]>>
    ELSE IF TGe(s, MULTI_HUE_STOPS[i][1])
         THEN <<MULTI_HUE_STOPS[i], MULTI_HUE_STOPS[i + 1]>>
         ELSE FindStopsLowerOnly(s, i + 1)

\* the for loop of getMultiHueFillColor from index i on: the first bracketing
\* pair, or the initial lo/hi (first and last stop) when the loop finds none
RECURSIVE FindStops(_, _)
FindStops(s, i) ==
    IF i > Len(MULTI_HUE_STOPS) - 1
    THEN <<MULTI_HUE_STOPS[1], MULTI_HUE_STOPS[Len(MULTI_HUE_STOPS)]>>
    ELSE IF TGe(s, MULTI_HUE_STOPS[i][1]) /\ TLe(s, MULTI_HUE_STOPS[i + 1][1])
         THEN <<MULTI_HUE_STOPS[i], MULTI_HUE_STOPS[i + 1]>>
         ELSE FindStops(s, i + 1)

\* Math.round(lo + (hi - lo) * f), f = (t - lo0) / range, positions in
\* hundredths: floor((2W*lo - 2*delta*L + W + 200*delta*t) / (2W))
MultiHueChannel(lo, hi, L, W, s) ==
    LET delta == hi - lo
        x == IF delta >= 0
             THEN FloorSqrtQ(40000 * delta * delta, s.n, s.d)
             ELSE 0 - CeilSqrtQ(40000 * delta * delta, s.n, s.d)
    IN (2 * W * lo - 2 * delta * L + W + x) \div (2 * W)

getMultiHueFillColor(share) ==
    LET s == Min1(share)
        stops == FindStops(s, 1)
        lo == stops[1]
        hi == stops[2]
        range == IF hi[1] - lo[1] # 0 THEN hi[1] - lo[1] ELSE 100
    IN IF s.n < 0 THEN NaNRgb
       ELSE Rgb(MultiHueChannel(lo[2], hi[2], lo[1], range, s),
                MultiHueChannel(lo[3], hi[3], lo[1], range, s),
                MultiHueChannel(lo[4], hi[4], lo[1], range, s))

(***************************************************************************)
(* ChoroplethLayer.tsx: normalisation and the per-feature style policy     *)
(***************************************************************************)
\* the loop of computeMaxShare over the features from index i on
RECURSIVE MaxShareLoop(_, _, _, _)
MaxShareLoop(features, cId, i, max) ==
    IF i > Len(features) THEN max
    ELSE LET feat == features[i] IN
         IF ~HasProps(feat) THEN MaxShareLoop(features, cId, i + 1, max)
         ELSE LET votes == VotesOf(feat.properties, cId)
                  av == ActualVotersOf(feat.properties)
              IN IF av > 0 /\ FracGT(Frac(votes, av), max)
                 THEN MaxShareLoop(features, cId, i + 1, Frac(votes, av))
                 ELSE MaxShareLoop(features, cId, i + 1, max)

\* plausible slips: return Math.max(max, 1); return max
computeMaxShareFloor(data, cId) ==
    LET max == MaxShareLoop(data.features, cId, 1, Zero)
    IN IF FracGT(One, max) THEN One ELSE max

computeMaxShareNoFallback(data, cId) == MaxShareLoop(data.features, cId, 1, Zero)

\* return max || 1
computeMaxShare(data, cId) ==
    LET max == MaxShareLoop(data.features, cId, 1, Zero)
    IN IF max # Zero THEN max ELSE One

\* const share = av > 0 ? votes / av : 0
ShareOf(props, cId) ==
    LET votes == VotesOf(props, cId)
        av == ActualVotersOf(props)
    IN IF av > 0 THEN Frac(votes, av) ELSE Zero

\* const normalized = maxShareRef.current > 0 ? share / maxShareRef.current : 0
NormalizedOf(props, cId, maxShare) ==
    IF FracGT(maxShare, Zero) THEN FracDiv(ShareOf(props, cId), maxShare) ELSE Zero

\* a plausible slip: the barangay is not compared
StyleIsMatchNoBarangay(props, sel) ==
    props.m = sel.municipality /\ props.p = sel.province

\* the isMatch computation of getStyle for a non-null selection
StyleIsMatch(props, sel) ==
    IF sel.type = "municipality"
    THEN props.m = sel.municipality /\ props.p = sel.province
    ELSE props.b = sel.barangay /\ props.m = sel.municipality /\ props.p = sel.province

NoPropsStyle ==
    [fillColor |-> [hex |-> "#000"], fillOpacity |-> 80, weight |-> 30,
     color |-> "#222", opacity |-> 40]

\* refs: [candidateId, color, search, highContrast, maxShare], the .current of
\* candidateIdRef, colorRef, searchRef, highContrastRef and maxShareRef
getStyle(feature, refs) ==
    IF ~HasProps(feature) THEN NoPropsStyle
    ELSE LET props == feature.properties
             normalized == NormalizedOf(props, refs.candidateId, refs.maxShare)
             sel == refs.search
             hasSel == sel # NULL
             isMatch == IF hasSel THEN StyleIsMatch(props, sel) ELSE TRUE
         IN [fillColor |-> IF refs.highContrast
                           THEN getMultiHueFillColor(normalized)
                           ELSE getFillColor(normalized, refs.color),
             fillOpacity |-> IF hasSel THEN (IF isMatch THEN 90 ELSE 15) ELSE 85,
             weight |-> IF hasSel /\ isMatch THEN 150 ELSE 30,
             color |-> IF hasSel /\ isMatch THEN "#fff" ELSE "#222",
             opacity |-> IF hasSel /\ isMatch THEN 80 ELSE 40]

\* l.setStyle({ weight: 2, color: "#fff", opacity: 0.8 }) of the mouseover handler
HoverStyle == [weight |-> 200, color |-> "#fff", opacity |-> 80]

\* L.Path.setStyle: the given keys overwrite the path's options
SetPathStyle(old, new) == [k \in DOMAIN old |-> IF k \in DOMAIN new THEN new[k] ELSE old[k]]

(***************************************************************************)
(* SearchBar.tsx: the search index and the query filter                    *)
(***************************************************************************)
\* the template literals `${p}|${m}`, `${m}, ${p}` and `${b}, ${m}, ${p}`
MuniKey(p, m) == p \o <<"|">> \o m

MuniLabel(p, m) == ToLowerCase(m \o <<",", " ">> \o p)

BrgyLabel(p, m, b) == ToLowerCase(b \o <<",", " ">> \o m \o <<",", " ">> \o p)

\* the entries the loop of searchIndex creates for the feature at index i;
\* oid is the identity of the created object (the index of its feature)
MuniEntry(features, i) ==
    LET props == features[i].properties
    IN [label |-> MuniLabel(props.p, props.m), type |-> "municipality",
        province |-> props.p, municipality |-> props.m, oid |-> i]

BrgyEntry(features, i) ==
    LET props == features[i].properties
    IN [label |-> BrgyLabel(props.p, props.m, props.b), type |-> "barangay",
        province |-> props.p, municipality |-> props.m, barangay |-> props.b, oid |-> i]

\* the indices of the features the loop does not skip (if (!props) continue)
WithProps(features) ==
    SelectSeq([i \in DOMAIN features |-> i], LAMBDA i : HasProps(features[i]))

\* muniSet.values(): in insertion order, one entry per key, made by the first
\* feature with that key (if (!muniSet.has(muniKey)) muniSet.set(...))
MuniSetValues(features) ==
    LET key(i) == MuniKey(features[i].properties.p, features[i].properties.m)
        first == SelectSeq(WithProps(features),
                           LAMBDA i : \A j \in 1..(i - 1) :
                                         HasProps(features[j]) => key(j) # key(i))
    IN [k \in DOMAIN first |-> MuniEntry(features, first[k])]

\* brgyList: one entry per feature with properties, in feature order
BrgyList(features) ==
    LET idx == WithProps(features)
    IN [k \in DOMAIN idx |-> BrgyEntry(features, idx[k])]

\* a plausible slip: one sort over municipalities and barangays together
SearchIndexMemoOneSort(data) ==
    IF Len(data.features) = 0 THEN <<>>
    ELSE SortByLabel(MuniSetValues(data.features) \o BrgyList(data.features))

\* the function of const searchIndex = useMemo(..., [data])
SearchIndexMemo(data) ==
    IF Len(data.features) = 0 THEN <<>>
    ELSE SortByLabel(MuniSetValues(data.features)) \o SortByLabel(BrgyList(data.features))

MaxResults == 50

\* matches.slice(0, 50)
Slice0(s, n) == SubSeq(s, 1, IF Len(s) < n THEN Len(s) ELSE n)

\* a plausible slip: some instead of every
ItemMatchesSome(item, tokens) ==
    \E k \in DOMAIN tokens : Includes(ToLowerCase(item.label), tokens[k])

\* tokens.every((t) => label.includes(t))
ItemMatches(item, tokens) ==
    \A k \in DOMAIN tokens : Includes(ToLowerCase(item.label), tokens[k])

\* the function of const results = useMemo(..., [query, searchIndex])
ResultsMemo(query, index) ==
    IF Trim(query) = <<>> THEN <<>>
    ELSE LET q == Trim(ToLowerCase(query))
             tokens == SplitWs(q)
             matches == SelectSeq(index, LAMBDA item : ItemMatches(item, tokens))
         IN Slice0(matches, MaxResults)

(***************************************************************************)
(* MapView.tsx: tooltip and viewport controller                            *)
(***************************************************************************)
\* The numbers the Tooltip shows: votes, share (the string toFixed(1) of the
\* percentage, as a number of tenths of a percent; "0.0" is 0) and av.
Tooltip(props, candidateId) ==
    LET votes == VotesOf(props, candidateId)
        av == ActualVotersOf(props)
    IN [votes |-> votes,
        share |-> IF av > 0 THEN (2000 * votes + av) \div (2 * av) ELSE 0,
        av |-> av]

\* a plausible slip: the province is not compared
ZoomMatchNoProvince(props, sel) ==
    IF sel.type = "municipality"
    THEN props.m = sel.municipality
    ELSE props.b = sel.barangay /\ props.m = sel.municipality

\* the match computation of MapZoomController
ZoomMatch(props, sel) ==
    IF sel.type = "municipality"
    THEN props.m = sel.municipality /\ props.p = sel.province
    ELSE props.b = sel.barangay /\ props.m = sel.municipality /\ props.p = sel.province

\* a plausible slip: the bounds are not tested before the fit
BoundsAlwaysValid(bounds) == TRUE

\* L.latLngBounds([]) and LatLngBounds.extend / isValid
EmptyBounds == [empty |-> TRUE]

BoundsIsValid(bounds) == "south" \in DOMAIN bounds

MinOf(a, b) == IF a < b THEN a ELSE b

MaxOf(a, b) == IF a > b THEN a ELSE b

\* a plausible slip: the bounds are replaced, not extended
BoundsExtendReplace(bounds, box) == box

BoundsExtend(bounds, box) ==
    IF ~BoundsIsValid(bounds) THEN box
    ELSE [south |-> MinOf(bounds.south, box.south), west |-> MinOf(bounds.west, box.west),
          north |-> MaxOf(bounds.north, box.north), east |-> MaxOf(bounds.east, box.east)]

\* the loop of MapZoomController over data.features from index i on
RECURSIVE ZoomLoop(_, _, _, _)
ZoomLoop(features, sel, i, bounds) ==
    IF i > Len(features) THEN bounds
    ELSE IF ~HasProps(features[i]) THEN ZoomLoop(features, sel, i + 1, bounds)
    ELSE IF ZoomMatch(features[i].properties, sel) /\ HasGeometry(features[i])
         THEN ZoomLoop(features, sel, i + 1, BoundsExtend(bounds, features[i].geometry))
         ELSE ZoomLoop(features, sel, i + 1, bounds)

FitPadding == 40

FitMaxZoom == 16

\* a plausible slip: fitBounds without the bounds.isValid() test
ZoomEffectUnchecked(data, searchSelection) ==
    IF searchSelection = NULL THEN <<>>
    ELSE <<[bounds |-> ZoomLoop(data.features, searchSelection, 1, EmptyBounds),
            padding |-> <<FitPadding, FitPadding>>, maxZoom |-> FitMaxZoom]>>

\* The effect of MapZoomController: the map.fitBounds calls it makes.
ZoomEffect(data, searchSelection) ==
    IF searchSelection = NULL THEN <<>>
    ELSE LET bounds == ZoomLoop(data.features, searchSelection, 1, EmptyBounds)
         IN IF BoundsIsValid(bounds)
            THEN <<[bounds |-> bounds, padding |-> <<FitPadding, FitPadding>>,
                    maxZoom |-> FitMaxZoom]>>
            ELSE <<>>

(***************************************************************************)
(* data/candidates.ts (not among the sources): two ordered candidate lists *)
(***************************************************************************)
senateCandidates ==
    << [id |-> "s01", type |-> "senate", color |-> <<"#", "f", "b", "9", "2", "3", "c">>],
       [id |-> "s02", type |-> "senate", color |-> <<"#", "3", "8", "B", "D", "F", "8">>] >>

partylistCandidates ==
    << [id |-> "p01", type |-> "partylist", color |-> <<"4", "a", "d", "e", "8", "0">>] >>

CandidatesOf(type) == IF type = "senate" THEN senateCandidates ELSE partylistCandidates

(***************************************************************************)
(* The responses the fetch of /data/barangays.geojson may deliver          *)
(***************************************************************************)
Box(s, w, n, e) == [south |-> s, west |-> w, north |-> n, east |-> e]

SampleFeatures ==
    << [properties |-> [p |-> <<"Q">>, m |-> <<"M">>, b |-> <<"a">>, rv |-> 4, av |-> 2,
                        v_s01 |-> 1, v_s02 |-> 2, v_p01 |-> 0],
        geometry |-> Box(0, 0, 1, 1)],
       [properties |-> [p |-> <<"Q">>, m |-> <<"M">>, b |-> <<"b">>, rv |-> 4, av |-> 4,
                        v_s01 |-> 1, v_p01 |-> 3],
        geometry |-> Box(1, 1, 3, 2)],
       [geometry |-> Box(5, 5, 6, 6)],
       [properties |-> [p |-> <<"Q">>, m |-> <<"a">>, b |-> <<"M">>, rv |-> 3, av |-> 0,
                        v_s01 |-> 0, v_s02 |-> 0],
        geometry |-> Box(2, 0, 4, 1)],
       [properties |-> [p |-> <<"Q">>, m |-> <<"M">>, b |-> <<"c">>, rv |-> 2]] >>

\* the number of features of the largest response considered
MaxFeatures == 3

Responses ==
    {[type |-> "FeatureCollection", features |-> SubSeq(SampleFeatures, 1, n), oid |-> 1] :
        n \in 0..MinOf(MaxFeatures, Len(SampleFeatures))}

\* the texts the user may type into the search input
TypedTexts == {<<>>, <<" ">>, <<"m">>, <<"A", " ", "q">>}

Keys == {"ArrowDown", "ArrowUp", "Enter", "Escape"}

(***************************************************************************)
(* State                                                                   *)
(***************************************************************************)
VARIABLES
    geojson,            \* the body of the response of the fetch, once it resolves
    data,               \* App: useState<BarangayCollection>; oid is the object's identity
    loading,            \* App
    datasetType,        \* App
    selectedCandidate,  \* App
    searchSelection,    \* App: SearchResult or NULL
    highContrast,       \* App
    query,              \* SearchBar
    open,               \* SearchBar
    selectedIndex,      \* SearchBar (0-based, as in the code)
    searchIndex,        \* SearchBar: the memoized search index
    results,            \* SearchBar: the memoized results
    hoveredProps,       \* MapView: BarangayProperties or NULL
    refs,               \* ChoroplethLayer: candidateIdRef, colorRef, searchRef, highContrastRef, maxShareRef
    layerRef,           \* ChoroplethLayer: 0 (null) or the identity of the L.GeoJSON layer
    layerSeq,           \* number of L.GeoJSON layers created so far (gives the identities)
    layers,             \* the paths of the L.GeoJSON layer: feature index -> [feature, options, handlers]
    hovered,            \* the canvas renderer's hovered path (feature index) or 0
    io,                 \* what the last event did: fitBounds calls, computeMaxShare scans, ...
    probe               \* a call of one of the pure functions: its arguments and result

appVars == <<data, loading, datasetType, selectedCandidate, searchSelection, highContrast>>

searchVars == <<query, open, selectedIndex, searchIndex, results>>

layerVars == <<refs, layerRef, layerSeq, layers, hovered>>

vars == <<geojson, appVars, searchVars, hoveredProps, layerVars, io, probe>>

IoNone ==
    [fitBounds |-> <<>>, scans |-> 0, restyles |-> 0, created |-> 0, removed |-> 0,
     error |-> FALSE, hover |-> <<>>]

\* the event called onFeatureHover(props): hover holds the argument
IoHover(props) == [IoNone EXCEPT !.hover = <<props>>]

NoProbe == [fn |-> "none"]

\* the props App and MapView pass to ChoroplethLayer and MapZoomController
PropsOf(d, cand, sel, hc) ==
    [data |-> d, candidateId |-> cand.id, color |-> cand.color,
     searchSelection |-> sel, highContrast |-> hc]

\* MapView renders ChoroplethLayer only when data.features.length > 0
Mounted(props) == Len(props.data.features) > 0

(***************************************************************************)
(* ChoroplethLayer: component state C = [refs, layerRef, layerSeq, layers, *)
(* hovered, scans, restyles, created, removed] and its three effects       *)
(***************************************************************************)
NoLayers == [i \in {} |-> NULL]

\* the refs of a ChoroplethLayer that is not mounted
NoRefs ==
    [candidateId |-> "", color |-> <<>>, search |-> NULL, highContrast |-> FALSE,
     maxShare |-> Zero]

\* the useRef initial values at mount
MountRefs(props) ==
    [candidateId |-> props.candidateId, color |-> props.color, search |-> NULL,
     highContrast |-> props.highContrast, maxShare |-> Zero]

\* L.GeoJSON.setStyle(getStyle): every path's style is recomputed
SetStyleAll(C) ==
    [C EXCEPT !.layers = [i \in DOMAIN C.layers |->
                            [C.layers[i] EXCEPT !.options =
                                SetPathStyle(@, getStyle(C.layers[i].feature, C.refs))]],
              !.restyles = @ + 1]

\* the cleanup of the layer creation effect
RemoveLayerCleanup(C) ==
    IF C.layerRef = 0 THEN C
    ELSE [C EXCEPT !.layerRef = 0, !.layers = NoLayers, !.hovered = 0, !.removed = @ + 1]

\* The layer creation effect.  L.geoJSON creates one path per feature that has
\* a geometry, styles it with getStyle and calls onEachFeature (layer.on) once.
CreateLayerEffect(C, props) ==
    IF Len(props.data.features) = 0 THEN C
    ELSE LET refs1 == [C.refs EXCEPT !.maxShare = computeMaxShare(props.data, props.candidateId),
                                     !.candidateId = props.candidateId,
                                     !.color = props.color]
             feats == props.data.features
             withGeom == {i \in DOMAIN feats : HasGeometry(feats[i])}
         IN [C EXCEPT !.refs = refs1,
                      !.layers = [i \in withGeom |->
                                    [feature |-> feats[i],
                                     options |-> getStyle(feats[i], refs1),
                                     handlers |-> 1]],
                      !.layerSeq = @ + 1,
                      !.layerRef = C.layerSeq + 1,
                      !.hovered = 0,
                      !.scans = @ + 1,
                      !.created = @ + 1]

\* the effect "update styles when candidate, color, or contrast mode changes"
\* a plausible slip: the effect forgets to recompute the max share
StyleEffectStaleMax(C, props) ==
    IF C.layerRef = 0 THEN C
    ELSE SetStyleAll([C EXCEPT !.refs = [@ EXCEPT
                                   !.candidateId = props.candidateId,
                                   !.color = props.color,
                                   !.highContrast = props.highContrast]])

StyleEffect(C, props) ==
    IF C.layerRef = 0 THEN C
    ELSE SetStyleAll([C EXCEPT !.refs = [@ EXCEPT
                                   !.candidateId = props.candidateId,
                                   !.color = props.color,
                                   !.highContrast = props.highContrast,
                                   !.maxShare = computeMaxShare(props.data, props.candidateId)],
                               !.scans = @ + 1])

\* the effect "update styles when search selection changes"
\* a plausible slip: setStyle is called before searchRef is updated
SearchEffectStyleFirst(C, props) ==
    LET C1 == IF C.layerRef = 0 THEN C ELSE SetStyleAll(C)
    IN [C1 EXCEPT !.refs.search = props.searchSelection]

SearchEffect(C, props) ==
    LET C1 == [C EXCEPT !.refs.search = props.searchSelection]
    IN IF C1.layerRef = 0 THEN C1 ELSE SetStyleAll(C1)

\* the dependency arrays (map, getStyle and onFeatureHover never change;
\* computeMaxShare changes exactly when data does)
\* plausible slips in the dependency arrays: candidateId added to the layer
\* creation effect; highContrast missing from the style effect
CreateLayerDepsWithCandidate(props) == <<props.data, props.candidateId>>

CreateLayerDeps(props) == <<props.data>>

StyleDepsNoContrast(props) == <<props.candidateId, props.color, props.data>>

StyleDeps(props) == <<props.candidateId, props.color, props.highContrast, props.data>>

SearchDeps(props) == <<props.searchSelection>>

\* One React commit of ChoroplethLayer after the props changed from old to new:
\* mount (all effects, in order), update (cleanups of the effects whose
\* dependencies changed, then those effects, in order) or unmount (cleanups).
CommitChoropleth(C, old, new) ==
    IF ~Mounted(new)
    THEN (IF Mounted(old) THEN [RemoveLayerCleanup(C) EXCEPT !.refs = NoRefs] ELSE C)
    ELSE IF ~Mounted(old)
         THEN SearchEffect(StyleEffect(CreateLayerEffect([C EXCEPT !.refs = MountRefs(new)],
                                                         new), new), new)
    ELSE LET C1 == IF CreateLayerDeps(old) # CreateLayerDeps(new)
                   THEN CreateLayerEffect(RemoveLayerCleanup(C), new) ELSE C
             C2 == IF StyleDeps(old) # StyleDeps(new) THEN StyleEffect(C1, new) ELSE C1
         IN IF SearchDeps(old) # SearchDeps(new) THEN SearchEffect(C2, new) ELSE C2

\* a plausible slip: the candidate among the dependencies
ZoomDepsWithCandidate(props) == <<props.searchSelection, props.data, props.candidateId>>

\* the dependency array of the MapZoomController effect (map never changes)
ZoomDeps(props) == <<props.searchSelection, props.data>>

(***************************************************************************)
(* One event turn: the state updates of the handler, then the commit       *)
(***************************************************************************)
CurrentProps == PropsOf(data, selectedCandidate, searchSelection, highContrast)

\* The commit that follows new App state: the effects of ChoroplethLayer and of
\* MapZoomController, and what they did (io).
Commit(new) ==
    LET C0 == [refs |-> refs, layerRef |-> layerRef, layerSeq |-> layerSeq,
               layers |-> layers, hovered |-> hovered,
               scans |-> 0, restyles |-> 0, created |-> 0, removed |-> 0]
        fits == IF ZoomDeps(CurrentProps) # ZoomDeps(new)
                THEN ZoomEffect(new.data, new.searchSelection) ELSE <<>>
    IN \E C1 \in {CommitChoropleth(C0, CurrentProps, new)} :
          /\ refs' = C1.refs
          /\ layerRef' = C1.layerRef
          /\ layerSeq' = C1.layerSeq
          /\ layers' = C1.layers
          /\ hovered' = C1.hovered
          /\ io' = [fitBounds |-> fits, scans |-> C1.scans, restyles |-> C1.restyles,
                    created |-> C1.created, removed |-> C1.removed, error |-> FALSE,
                    hover |-> <<>>]

(***************************************************************************)
(* App: dataset load, candidate, dataset type and colour mode              *)
(***************************************************************************)
\* .then((geojson) => { setData(geojson); setLoading(false); })
\* the search index and the results memo are recomputed: selectedIndex resets
FetchResolved ==
    /\ loading
    /\ data' = geojson
    /\ loading' = FALSE
    /\ searchIndex' = SearchIndexMemo(geojson)
    /\ results' = ResultsMemo(query, SearchIndexMemo(geojson))
    /\ selectedIndex' = 0
    /\ Commit(PropsOf(geojson, selectedCandidate, searchSelection, highContrast))
    /\ UNCHANGED <<geojson, datasetType, selectedCandidate, searchSelection, highContrast,
                   query, open, hoveredProps, probe>>

\* .catch((err) => { console.error(...); setLoading(false); })
FetchRejected ==
    /\ loading
    /\ loading' = FALSE
    /\ io' = IoNone
    /\ UNCHANGED <<geojson, data, datasetType, selectedCandidate, searchSelection,
                   highContrast, searchVars, hoveredProps, layerVars, probe>>

\* onCandidateSelect={setSelectedCandidate}
CandidateSelect(candidate) ==
    /\ selectedCandidate' = candidate
    /\ Commit(PropsOf(data, candidate, searchSelection, highContrast))
    /\ UNCHANGED <<geojson, data, loading, datasetType, searchSelection, highContrast,
                   searchVars, hoveredProps, probe>>

\* a plausible slip: the first candidate of the new list is not selected
handleDatasetChangeKeep(type) ==
    /\ datasetType' = type
    /\ io' = IoNone
    /\ UNCHANGED <<geojson, data, loading, selectedCandidate, searchSelection, highContrast,
                   searchVars, hoveredProps, layerVars, probe>>

handleDatasetChange(type) ==
    /\ datasetType' = type
    /\ selectedCandidate' = CandidatesOf(type)[1]
    /\ Commit(PropsOf(data, CandidatesOf(type)[1], searchSelection, highContrast))
    /\ UNCHANGED <<geojson, data, loading, searchSelection, highContrast,
                   searchVars, hoveredProps, probe>>

\* onHighContrastToggle={() => setHighContrast(!highContrast)}
HighContrastToggle ==
    /\ highContrast' = ~highContrast
    /\ Commit(PropsOf(data, selectedCandidate, searchSelection, ~highContrast))
    /\ UNCHANGED <<geojson, data, loading, datasetType, selectedCandidate, searchSelection,
                   searchVars, hoveredProps, probe>>

(***************************************************************************)
(* SearchBar                                                               *)
(***************************************************************************)
\* onChange of the input; the results memo is recomputed: selectedIndex resets
\* a plausible slip: no reset of the highlighted index when the results change
InputChangeNoReset(text) ==
    /\ text # query
    /\ query' = text
    /\ open' = TRUE
    /\ results' = ResultsMemo(text, searchIndex)
    /\ io' = IoNone
    /\ UNCHANGED <<geojson, appVars, searchIndex, selectedIndex, hoveredProps, layerVars, probe>>

InputChange(text) ==
    /\ text # query
    /\ query' = text
    /\ open' = TRUE
    /\ results' = ResultsMemo(text, searchIndex)
    /\ selectedIndex' = 0
    /\ io' = IoNone
    /\ UNCHANGED <<geojson, appVars, searchIndex, hoveredProps, layerVars, probe>>

\* onFocus={() => query.trim() && setOpen(true)}
InputFocus ==
    /\ open' = IF Trim(query) # <<>> THEN TRUE ELSE open
    /\ io' = IoNone
    /\ UNCHANGED <<geojson, appVars, query, selectedIndex, searchIndex, results, hoveredProps,
                   layerVars, probe>>

\* the document mousedown handler, for a target outside the wrapper
ClickOutside ==
    /\ open' = FALSE
    /\ io' = IoNone
    /\ UNCHANGED <<geojson, appVars, query, selectedIndex, searchIndex, results, hoveredProps,
                   layerVars, probe>>

\* handleSelect(result); onSelect is App's setSearchSelection
handleSelect(result) ==
    /\ query' = result.label
    /\ open' = FALSE
    /\ results' = IF result.label # query THEN ResultsMemo(result.label, searchIndex) ELSE results
    /\ selectedIndex' = IF result.label # query THEN 0 ELSE selectedIndex
    /\ searchSelection' = result
    /\ Commit(PropsOf(data, selectedCandidate, result, highContrast))
    /\ UNCHANGED <<geojson, data, loading, datasetType, selectedCandidate, highContrast,
                   searchIndex, hoveredProps, probe>>

\* handleClear, the button rendered while query is not empty
handleClear ==
    /\ query # <<>>
    /\ query' = <<>>
    /\ open' = FALSE
    /\ results' = ResultsMemo(<<>>, searchIndex)
    /\ selectedIndex' = 0
    /\ searchSelection' = NULL
    /\ Commit(PropsOf(data, selectedCandidate, NULL, highContrast))
    /\ UNCHANGED <<geojson, data, loading, datasetType, selectedCandidate, highContrast,
                   searchIndex, hoveredProps, probe>>

\* onClick of the i-th result button (rendered while open && results.length > 0)
ResultClick(i) ==
    /\ open
    /\ i \in DOMAIN results
    /\ handleSelect(results[i])

\* onMouseEnter of the i-th result button
ResultMouseEnter(i) ==
    /\ open
    /\ i \in DOMAIN results
    /\ selectedIndex' = i - 1
    /\ io' = IoNone
    /\ UNCHANGED <<geojson, appVars, query, open, searchIndex, results, hoveredProps,
                   layerVars, probe>>

\* a key handled by handleKeyDown that changes nothing: the early return, or a
\* TypeError when Enter finds results[selectedIndex] undefined
KeyIgnored(failed) ==
    /\ io' = [IoNone EXCEPT !.error = failed]
    /\ UNCHANGED <<geojson, appVars, searchVars, hoveredProps, layerVars, probe>>

handleKeyDown(key) ==
    IF ~open \/ Len(results) = 0 THEN KeyIgnored(FALSE)
    ELSE IF key = "ArrowDown"
         THEN /\ selectedIndex' = MinOf(selectedIndex + 1, Len(results) - 1)
              /\ io' = IoNone
              /\ UNCHANGED <<geojson, appVars, query, open, searchIndex, results, hoveredProps,
                             layerVars, probe>>
    ELSE IF key = "ArrowUp"
         THEN /\ selectedIndex' = MaxOf(selectedIndex - 1, 0)
              /\ io' = IoNone
              /\ UNCHANGED <<geojson, appVars, query, open, searchIndex, results, hoveredProps,
                             layerVars, probe>>
    ELSE IF key = "Enter"
         THEN IF selectedIndex + 1 \in DOMAIN results
              THEN handleSelect(results[selectedIndex + 1])
              ELSE KeyIgnored(TRUE)
    ELSE \* Escape
         /\ open' = FALSE
         /\ io' = IoNone
         /\ UNCHANGED <<geojson, appVars, query, selectedIndex, searchIndex, results, hoveredProps,
                   layerVars, probe>>

(***************************************************************************)
(* ChoroplethLayer: the hover handlers registered by onEachFeature.  The   *)
(* canvas renderer hovers one path at a time and fires mouseout on it      *)
(* before the mouseover of the next.                                       *)
(***************************************************************************)
FeatureProps(feature) == IF HasProps(feature) THEN feature.properties ELSE NULL

mouseover(i) ==
    /\ layerRef # 0
    /\ i \in DOMAIN layers
    /\ hovered = 0
    /\ layers' = [layers EXCEPT ![i].options = SetPathStyle(@, HoverStyle)]
    /\ hovered' = i
    /\ hoveredProps' = FeatureProps(layers[i].feature)
    /\ io' = IoHover(FeatureProps(layers[i].feature))
    /\ UNCHANGED <<geojson, appVars, searchVars, refs, layerRef, layerSeq, probe>>

\* a plausible slip: the mouseout handler restores the style of no selection
ResetToUnselected(feature, r) == getStyle(feature, [r EXCEPT !.search = NULL])

\* L.GeoJSON.resetStyle(path): the style option (getStyle) is applied again
ResetStyle(feature, r) == getStyle(feature, r)

\* layerRef.current?.resetStyle(e.target): the path's style is getStyle again
mouseout ==
    /\ hovered # 0
    /\ layers' = IF layerRef # 0
                 THEN [layers EXCEPT ![hovered].options =
                          SetPathStyle(@, ResetStyle(layers[hovered].feature, refs))]
                 ELSE layers
    /\ hovered' = 0
    /\ hoveredProps' = NULL
    /\ io' = IoHover(NULL)
    /\ UNCHANGED <<geojson, appVars, searchVars, refs, layerRef, layerSeq, probe>>

mousemove ==
    /\ hovered # 0
    /\ hoveredProps' = FeatureProps(layers[hovered].feature)
    /\ io' = IoHover(FeatureProps(layers[hovered].feature))
    /\ UNCHANGED <<geojson, appVars, searchVars, layerVars, probe>>

(***************************************************************************)
(* The dashboard                                                           *)
(***************************************************************************)
\* the state after the first render, for a fetch that will deliver one of the
\* given responses
InitWith(responses) ==
    /\ geojson \in responses
    /\ data = [type |-> "FeatureCollection", features |-> <<>>, oid |-> 0]
    /\ loading = TRUE
    /\ datasetType = "senate"
    /\ selectedCandidate = senateCandidates[1]
    /\ searchSelection = NULL
    /\ highContrast = TRUE
    /\ query = <<>>
    /\ open = FALSE
    /\ selectedIndex = 0
    /\ searchIndex = <<>>
    /\ results = <<>>
    /\ hoveredProps = NULL
    /\ refs = NoRefs
    /\ layerRef = 0
    /\ layerSeq = 0
    /\ layers = NoLayers
    /\ hovered = 0
    /\ io = IoNone
    /\ probe = NoProbe

Init == InitWith(Responses)

Next ==
    \/ FetchResolved
    \/ FetchRejected
    \/ \E c \in Range(CandidatesOf(datasetType)) : CandidateSelect(c)
    \/ \E type \in {"senate", "partylist"} : handleDatasetChange(type)
    \/ HighContrastToggle
    \/ \E text \in TypedTexts : InputChange(text)
    \/ InputFocus
    \/ ClickOutside
    \/ \E i \in DOMAIN results : ResultClick(i)
    \/ \E i \in DOMAIN results : ResultMouseEnter(i)
    \/ handleClear
    \/ \E key \in Keys : handleKeyDown(key)
    \/ \E i \in DOMAIN layers : mouseover(i)
    \/ mouseout
    \/ mousemove

Spec == Init /\ [][Next]_vars

(***************************************************************************)
(* Properties of the dashboard (Spec)                                      *)
(***************************************************************************)
\* the selector state App currently holds, as the refs getStyle reads
CurrentRefs ==
    [candidateId |-> selectedCandidate.id, color |-> selectedCandidate.color,
     search |-> searchSelection, highContrast |-> highContrast,
     maxShare |-> computeMaxShare(data, selectedCandidate.id)]

\* C1: once the layer is built, after every event the style applied to every
\* path that is not hovered is the policy style of its feature under the
\* current selector state (candidate id, base colour, colour mode, search
\* selection, max share of the current candidate).
C1_StylesFollowSelectorState ==
    layerRef # 0 =>
        \A i \in DOMAIN layers :
            i # hovered => layers[i].options = getStyle(data.features[i], CurrentRefs)

\* C1 witness: a built layer restyled by the last event, with a barangay-level
\* selection, the single-hue mode and a candidate other than the initial one.
C1_Witness ==
    /\ layerRef # 0
    /\ io.restyles > 0
    /\ searchSelection # NULL
    /\ searchSelection.type = "barangay"
    /\ ~highContrast
    /\ selectedCandidate # senateCandidates[1]
    /\ Cardinality(DOMAIN layers) >= 2

\* C4: an event that does not replace the feature collection neither removes
\* nor creates a layer nor registers handlers: the layer instance and the
\* paths with their handlers stay; every path has exactly one set of handlers.
C4_LayerBuiltOnce ==
    [][/\ data' = data =>
            /\ layerRef' = layerRef
            /\ layerSeq' = layerSeq
            /\ DOMAIN layers' = DOMAIN layers
            /\ \A i \in DOMAIN layers :
                  /\ layers'[i].handlers = layers[i].handlers
                  /\ layers'[i].feature = layers[i].feature
            /\ io'.created = 0
            /\ io'.removed = 0
       /\ \A i \in DOMAIN layers' : layers'[i].handlers = 1
       /\ layerSeq' <= 1]_vars

\* C4 witness: the layer built by the load is still the one in place after a
\* candidate change, a colour-mode toggle, a search selection and a hover.
C4_Witness ==
    /\ layerRef = 1
    /\ io.created = 0
    /\ selectedCandidate.type = "partylist"
    /\ ~highContrast
    /\ searchSelection # NULL
    /\ hovered # 0

(***************************************************************************)
(* SpecSearch: the search bar over a wider family of responses, typed into *)
(* one keystroke at a time                                                 *)
(***************************************************************************)
StatsOne == [rv |-> 1, av |-> 1, v_s01 |-> 1]

Named(p, m, b) == [p |-> p, m |-> m, b |-> b] @@ StatsOne

SearchFeatures ==
    { [properties |-> Named(<<"Q">>, <<"M">>, <<"a">>), geometry |-> Box(0, 0, 1, 1)],
      [properties |-> Named(<<"Q">>, <<"M">>, <<"q">>), geometry |-> Box(0, 1, 1, 2)],
      [properties |-> Named(<<"Q">>, <<"a">>, <<"M">>), geometry |-> Box(1, 0, 2, 1)],
      [properties |-> Named(<<"a">>, <<"M">>, <<"a">>), geometry |-> Box(1, 1, 2, 2)],
      [geometry |-> Box(2, 2, 3, 3)] }

\* the number of features of the small responses
MaxSearchFeatures == 2

SeqsUpTo(S, n) == UNION {[1..k -> S] : k \in 0..n}

\* The bulk responses: n barangays "a" of the province "Qa", each of a
\* municipality of its own that is named by two digits, so that the index has
\* 2n entries.
BulkFeature(i) ==
    [properties |-> Named(<<"Q", "a">>,
                          <<DigitChars[((i \div 10) % 10) + 1], DigitChars[(i % 10) + 1]>>,
                          <<"a">>),
     geometry |-> Box(i, 0, i + 1, 1)]

\* the bulk responses have MaxResults / 2 + k barangays, k in 0..MaxBulkExtra
MaxBulkExtra == 1

SearchResponses ==
    {[type |-> "FeatureCollection", features |-> fs, oid |-> 1] :
        fs \in SeqsUpTo(SearchFeatures, MaxSearchFeatures)}
    \cup {[type |-> "FeatureCollection",
           features |-> [i \in 1..((MaxResults \div 2) + k) |-> BulkFeature(i)], oid |-> 1] :
            k \in 0..MaxBulkExtra}

SearchAlphabet == {"a", "q", "M", " "}

\* the length of the longest text typed
MaxTextLen == 3

\* the texts one keystroke away: a character appended, or the last one deleted
Keystrokes(text) ==
    {Append(text, ch) : ch \in IF Len(text) < MaxTextLen THEN SearchAlphabet ELSE {}}
    \cup (IF text = <<>> THEN {} ELSE {SubSeq(text, 1, Len(text) - 1)})

InitSearch == InitWith(SearchResponses)

NextSearch ==
    \/ FetchResolved
    \/ \E text \in Keystrokes(query) : InputChange(text)

SpecSearch == InitSearch /\ [][NextSearch]_vars

(***************************************************************************)
(* SpecStyle: the functions of the style policy, of the viewport           *)
(* controller and of the tooltip, called on a family of collections,       *)
(* candidates and selections.  probe holds the call and what it returned.  *)
(***************************************************************************)
StyleFeatures ==
    { [properties |-> [p |-> <<"Q">>, m |-> <<"M">>, b |-> <<"a">>, rv |-> 4, av |-> 2,
                       v_s01 |-> 1],
       geometry |-> Box(0, 0, 1, 1)],
      [properties |-> [p |-> <<"Q">>, m |-> <<"M">>, b |-> <<"b">>, rv |-> 4, av |-> 4,
                       v_s01 |-> 1, v_s02 |-> 4],
       geometry |-> Box(2, 2, 3, 3)],
      [properties |-> [p |-> <<"R">>, m |-> <<"M">>, b |-> <<"a">>, rv |-> 3, av |-> 0,
                       v_s01 |-> 2],
       geometry |-> Box(4, 4, 5, 5)],
      [properties |-> [p |-> <<"Q">>, m |-> <<"N">>, b |-> <<"a">>, rv |-> 2, v_s01 |-> 1],
       geometry |-> Box(6, 6, 7, 7)],
      [properties |-> [p |-> <<"Q">>, m |-> <<"M">>, b |-> <<"a">>, rv |-> 4, av |-> 2],
       geometry |-> Box(8, 8, 9, 9)],
      [properties |-> [p |-> <<"Q">>, m |-> <<"M">>, b |-> <<"b">>, rv |-> 4, av |-> 2,
                       v_s01 |-> 0, v_s02 |-> 3],
       geometry |-> Box(10, 10, 11, 11)],
      [geometry |-> Box(12, 12, 13, 13)],
      [properties |-> [p |-> <<"Q">>, m |-> <<"M">>, b |-> <<"a">>, rv |-> 4, av |-> 2,
                       v_s01 |-> 1]] }

\* the number of features of the largest collection
MaxStyleFeatures == 2

StyleResponses ==
    {[type |-> "FeatureCollection", features |-> fs, oid |-> 1] :
        fs \in SeqsUpTo(StyleFeatures, MaxStyleFeatures)}

AllCandidates == Range(senateCandidates) \cup Range(partylistCandidates)

\* the search results a user may have selected
StyleSelections ==
    { NULL,
      [label |-> MuniLabel(<<"Q">>, <<"M">>), type |-> "municipality",
       province |-> <<"Q">>, municipality |-> <<"M">>, oid |-> 1],
      [label |-> BrgyLabel(<<"Q">>, <<"M">>, <<"a">>), type |-> "barangay",
       province |-> <<"Q">>, municipality |-> <<"M">>, barangay |-> <<"a">>, oid |-> 1] }

\* the refs of ChoroplethLayer once its effects have run for these props
RefsFor(d, cand, sel, hc) ==
    [candidateId |-> cand.id, color |-> cand.color, search |-> sel, highContrast |-> hc,
     maxShare |-> computeMaxShare(d, cand.id)]

StyleFrame ==
    UNCHANGED <<geojson, appVars, searchVars, hoveredProps, layerVars, io>>

CallComputeMaxShare(cand) ==
    /\ probe' = [fn |-> "computeMaxShare", candidateId |-> cand.id,
                 out |-> computeMaxShare(geojson, cand.id)]
    /\ StyleFrame

CallGetStyle(i, cand, sel, hc) ==
    /\ probe' = [fn |-> "getStyle", feature |-> geojson.features[i],
                 refs |-> RefsFor(geojson, cand, sel, hc),
                 out |-> getStyle(geojson.features[i], RefsFor(geojson, cand, sel, hc))]
    /\ StyleFrame

CallZoomEffect(cand, sel, hc) ==
    /\ sel # NULL
    /\ probe' = [fn |-> "MapZoomController", refs |-> RefsFor(geojson, cand, sel, hc),
                 out |-> ZoomEffect(geojson, sel)]
    /\ StyleFrame

CallTooltip(i, cand) ==
    /\ HasProps(geojson.features[i])
    /\ probe' = [fn |-> "Tooltip", props |-> geojson.features[i].properties,
                 candidateId |-> cand.id,
                 out |-> Tooltip(geojson.features[i].properties, cand.id)]
    /\ StyleFrame

InitStyle == InitWith(StyleResponses)

NextStyle ==
    \/ \E cand \in AllCandidates : CallComputeMaxShare(cand)
    \/ \E i \in DOMAIN geojson.features, cand \in AllCandidates,
          sel \in StyleSelections, hc \in BOOLEAN : CallGetStyle(i, cand, sel, hc)
    \/ \E cand \in AllCandidates, sel \in StyleSelections, hc \in BOOLEAN :
          CallZoomEffect(cand, sel, hc)
    \/ \E i \in DOMAIN geojson.features, cand \in AllCandidates : CallTooltip(i, cand)

SpecStyle == InitStyle /\ [][NextStyle]_vars

(***************************************************************************)
(* The style claims, stated with definitions of their own                  *)
(***************************************************************************)
IsCall(fn) == probe.fn = fn

StatKey(cId) == "v_" \o cId

HasStat(props, cId) == StatKey(cId) \in DOMAIN props

NoVoters(props) == "av" \notin DOMAIN props \/ props.av = 0

\* the shares votes / actualVoters of the features whose actualVoters is > 0
ObservedShares(d, cId) ==
    {Frac(d.features[i].properties[StatKey(cId)], d.features[i].properties.av) :
        i \in {j \in DOMAIN d.features :
                  /\ HasProps(d.features[j])
                  /\ HasStat(d.features[j].properties, cId)
                  /\ ~NoVoters(d.features[j].properties)}}

\* the largest of them, 0 if there is none
ObservedMax(d, cId) ==
    LET S == ObservedShares(d, cId) \cup {Zero}
    IN CHOOSE x \in S : \A y \in S : ~FracGT(y, x)

\* the value of the colour scale for a normalized share
ColorScale(normalized, r) ==
    IF r.highContrast THEN getMultiHueFillColor(normalized)
    ELSE getFillColor(normalized, r.color)

\* the selection names the feature: province and municipality, and for a
\* barangay-level selection the barangay too
Names(sel, props) ==
    /\ sel.province = props.p
    /\ sel.municipality = props.m
    /\ sel.type = "barangay" => sel.barangay = props.b

Border(style) == [weight |-> style.weight, color |-> style.color, opacity |-> style.opacity]

ThinBorder == [weight |-> 30, color |-> "#222", opacity |-> 40]

ThickBrightBorder == [weight |-> 150, color |-> "#fff", opacity |-> 80]

\* C2: the style of a feature with properties is that of one of three branches:
\* no selection (moderate fill opacity, thin neutral border), selection that
\* names the feature (the highest fill opacity, thick bright border), selection
\* that does not (low fill opacity, thin border); in each branch the fill colour
\* is the colour scale value of the normalized share, whatever the selection.
C2_ThreeBranches ==
    IsCall("getStyle") /\ HasProps(probe.feature) =>
        LET props == probe.feature.properties
            sel == probe.refs.search
            style == probe.out
        IN /\ sel = NULL => style.fillOpacity = 85 /\ Border(style) = ThinBorder
           /\ sel # NULL /\ Names(sel, props) =>
                 style.fillOpacity = 90 /\ Border(style) = ThickBrightBorder
           /\ sel # NULL /\ ~Names(sel, props) =>
                 style.fillOpacity = 15 /\ Border(style) = ThinBorder
           /\ style.fillColor =
                 ColorScale(NormalizedOf(props, probe.refs.candidateId, probe.refs.maxShare),
                            probe.refs)
           /\ \A other \in StyleSelections :
                 getStyle(probe.feature, [probe.refs EXCEPT !.search = other]).fillColor
                     = style.fillColor

\* a feature of the selected municipality that is not the selected barangay is
\* dimmed and keeps the colour of its share
C2_Witness ==
    /\ IsCall("getStyle")
    /\ HasProps(probe.feature)
    /\ probe.refs.search # NULL
    /\ probe.refs.search.type = "barangay"
    /\ probe.refs.search.municipality = probe.feature.properties.m
    /\ probe.out.fillOpacity = 15
    /\ probe.out.fillColor # ColorScale(Zero, probe.refs)

\* the renderer styles the feature with the matched branch
StyledAsMatch(feature, r) == Border(getStyle(feature, r)) = ThickBrightBorder

\* the bounding box of a non-empty set of boxes
BoxAround(boxes) ==
    [south |-> CHOOSE x \in {b.south : b \in boxes} : \A b \in boxes : x <= b.south,
     west |-> CHOOSE x \in {b.west : b \in boxes} : \A b \in boxes : x <= b.west,
     north |-> CHOOSE x \in {b.north : b \in boxes} : \A b \in boxes : x >= b.north,
     east |-> CHOOSE x \in {b.east : b \in boxes} : \A b \in boxes : x >= b.east]

\* C3: the viewport controller and the renderer match the same features: a
\* feature with properties is a match of the bounds scan iff the renderer styles
\* it with the matched branch, that is iff the selection names it (province and
\* municipality, and the barangay for a barangay-level selection); the
\* viewport is fitted to the geometries of exactly those features.
C3_SameMatchPredicate ==
    IsCall("MapZoomController") =>
        LET sel == probe.refs.search
            feats == geojson.features
            withProps == {i \in DOMAIN feats : HasProps(feats[i])}
            styled == {i \in withProps : StyledAsMatch(feats[i], probe.refs)}
            boxes == {feats[i].geometry : i \in {j \in styled : HasGeometry(feats[j])}}
        IN /\ \A i \in withProps :
                 /\ ZoomMatch(feats[i].properties, sel) <=> i \in styled
                 /\ ZoomMatch(feats[i].properties, sel) <=> Names(sel, feats[i].properties)
           /\ probe.out = IF boxes = {} THEN <<>>
                          ELSE <<[bounds |-> BoxAround(boxes),
                                  padding |-> <<FitPadding, FitPadding>>,
                                  maxZoom |-> FitMaxZoom]>>

\* a barangay-level selection: of two features of its municipality the
\* viewport is fitted to the one that is the barangay
C3_Witness ==
    /\ IsCall("MapZoomController")
    /\ probe.refs.search.type = "barangay"
    /\ Len(probe.out) = 1
    /\ \E i, j \in DOMAIN geojson.features :
          /\ HasProps(geojson.features[i]) /\ HasGeometry(geojson.features[i])
          /\ HasProps(geojson.features[j]) /\ HasGeometry(geojson.features[j])
          /\ Names(probe.refs.search, geojson.features[i].properties)
          /\ ~Names(probe.refs.search, geojson.features[j].properties)
          /\ geojson.features[j].properties.m = probe.refs.search.municipality
          /\ probe.out[1].bounds = geojson.features[i].geometry

\* C5 as stated: maxShare returns max(observedMax, 1), which is never below 1.
C5_MaxOfObservedAndOne ==
    IsCall("computeMaxShare") =>
        LET observed == ObservedMax(geojson, probe.candidateId)
        IN /\ probe.out = IF FracGT(One, observed) THEN One ELSE observed
           /\ ~FracGT(One, probe.out)

\* C5: maxShare returns observedMax when that is greater than 0 and 1 when it
\* is 0; the returned value is greater than 0.
C5_ObservedOrOne ==
    IsCall("computeMaxShare") =>
        LET observed == ObservedMax(geojson, probe.candidateId)
        IN /\ probe.out = IF FracGT(observed, Zero) THEN observed ELSE One
           /\ FracGT(probe.out, Zero)

\* the largest share is a half, and maxShare returns it
C5_Witness ==
    /\ IsCall("computeMaxShare")
    /\ ObservedMax(geojson, probe.candidateId) = Frac(1, 2)
    /\ probe.out = Frac(1, 2)

\* no feature has both voters and votes for the candidate
NothingToShare(d, cId) ==
    \A i \in DOMAIN d.features :
        HasProps(d.features[i]) =>
            \/ NoVoters(d.features[i].properties)
            \/ ~HasStat(d.features[i].properties, cId)
            \/ d.features[i].properties[StatKey(cId)] = 0

\* C6: when every feature has actualVoters = 0, or the candidate has no votes
\* anywhere, maxShare is exactly 1 and the normalized share of every feature
\* in a restyle is 0 (and the fill colour that of 0).
C6_FloorOnEmptyData ==
    IsCall("getStyle") /\ NothingToShare(geojson, probe.refs.candidateId) =>
        /\ probe.refs.maxShare = One
        /\ \A i \in DOMAIN geojson.features :
              HasProps(geojson.features[i]) =>
                  NormalizedOf(geojson.features[i].properties, probe.refs.candidateId,
                               probe.refs.maxShare) = Zero
        /\ HasProps(probe.feature) => probe.out.fillColor = ColorScale(Zero, probe.refs)

\* a collection of a feature with votes but no voters and a feature with
\* voters but no votes
C6_Witness ==
    /\ IsCall("getStyle")
    /\ NothingToShare(geojson, probe.refs.candidateId)
    /\ HasProps(probe.feature)
    /\ \E i \in DOMAIN geojson.features :
          /\ HasProps(geojson.features[i])
          /\ HasStat(geojson.features[i].properties, probe.refs.candidateId)
          /\ geojson.features[i].properties[StatKey(probe.refs.candidateId)] > 0
          /\ NoVoters(geojson.features[i].properties)
    /\ \E i \in DOMAIN geojson.features :
          /\ HasProps(geojson.features[i])
          /\ ~NoVoters(geojson.features[i].properties)

IsBlank(ch) == ch \in WhiteSpace

LowerOf(text) ==
    [i \in DOMAIN text |->
        IF \E k \in DOMAIN UpperChars : UpperChars[k] = text[i]
        THEN LowerChars[CHOOSE k \in DOMAIN UpperChars : UpperChars[k] = text[i]]
        ELSE text[i]]

WordsOf(text) ==
    {SubSeq(text, i, j) : <<i, j>> \in
        {<<i, j>> \in (DOMAIN text) \X (DOMAIN text) :
            /\ i <= j
            /\ \A k \in i..j : ~IsBlank(text[k])
            /\ i = 1 \/ IsBlank(text[i - 1])
            /\ j = Len(text) \/ IsBlank(text[j + 1])}}

OccursIn(word, label) ==
    \E i \in 1..(Len(label) - Len(word) + 1) :
        \A k \in DOMAIN word : label[i + k - 1] = word[k]

EntryHasAll(entry, words) == \A w \in words : OccursIn(w, entry.label)

\* the positions in the index of the entries that have every word
Hits(index, words) == {i \in DOMAIN index : EntryHasAll(index[i], words)}

\* the reference of query(index, text)
QueryReference(index, text) ==
    IF WordsOf(text) = {} THEN <<>>
    ELSE LET hits == Hits(index, WordsOf(LowerOf(text)))
             first == {i \in hits : Cardinality({j \in hits : j < i}) < MaxResults}
         IN [k \in 1..Cardinality(first) |->
                index[CHOOSE i \in first : Cardinality({j \in first : j < i}) = k - 1]]

\* C8: the results of the search bar are the reference of query(index, text):
\* nothing for a text without words, otherwise the first 50 entries of the
\* index, in index order, whose label has every word of the lowercased text.
C8_ResultsAreReference == results = QueryReference(searchIndex, query)

\* more than 50 entries match a text of two words and the first 50 are returned
C8_Witness ==
    /\ Cardinality(WordsOf(query)) = 2
    /\ Cardinality(Hits(searchIndex, WordsOf(LowerOf(query)))) > MaxResults
    /\ Len(results) = MaxResults

\* e is returned for the text: some position of the results holds it
Returned(e) == \E k \in DOMAIN results : results[k] = e

\* the text is one or more words, each of them a part of the label of e
WordsFrom(e, text) == WordsOf(text) # {} /\ EntryHasAll(e, WordsOf(text))

\* C9 as stated: a query made of words of the label of an entry of the index
\* returns that entry.
C9_EveryEntryReturned ==
    \A i \in DOMAIN searchIndex :
        WordsFrom(searchIndex[i], query) => Returned(searchIndex[i])

\* C9: a query made of words of the label of an entry of the index returns that
\* entry, unless 50 entries that have all the words precede it in the index.
C9_EntryReturnedUnlessCapped ==
    \A i \in DOMAIN searchIndex :
        WordsFrom(searchIndex[i], query) =>
            \/ Returned(searchIndex[i])
            \/ Cardinality({j \in Hits(searchIndex, WordsOf(query)) : j < i}) >= MaxResults

\* an entry is returned for a word from the middle of its label, and
\* another is left out behind 50 earlier ones
C9_Witness ==
    /\ \E i \in DOMAIN searchIndex :
          /\ WordsFrom(searchIndex[i], query)
          /\ Returned(searchIndex[i])
          /\ \A w \in WordsOf(query) : SubSeq(searchIndex[i].label, 1, Len(w)) # w
    /\ \E i \in DOMAIN searchIndex :
          WordsFrom(searchIndex[i], query) /\ ~Returned(searchIndex[i])

IsMuni(e) == e.type = "municipality"

IsBrgy(e) == e.type = "barangay"

\* s holds municipalities, then barangays
MunisFirst(s) == \A i, j \in DOMAIN s : IsMuni(s[i]) /\ IsBrgy(s[j]) => i < j

\* C10: in the index every municipality precedes every barangay and each of the
\* two groups is in non-decreasing label order; in the results every
\* municipality precedes every barangay.
C10_MunisThenBrgysSorted ==
    /\ MunisFirst(searchIndex)
    /\ \A i, j \in DOMAIN searchIndex :
          i < j /\ searchIndex[i].type = searchIndex[j].type
              => LocaleCompare(searchIndex[i].label, searchIndex[j].label) <= 0
    /\ MunisFirst(results)

\* a municipality is returned before a barangay whose label sorts before it
C10_Witness ==
    \E i, j \in DOMAIN results :
        /\ i < j
        /\ IsMuni(results[i])
        /\ IsBrgy(results[j])
        /\ LocaleCompare(results[j].label, results[i].label) < 0

(***************************************************************************)
(* SpecIndex: the load of collections whose names contain the character    *)
(* '|' of the deduplication key                                            *)
(***************************************************************************)
IndexFeatures ==
    { [properties |-> Named(<<"a", "|", "b">>, <<"c">>, <<"x">>), geometry |-> Box(0, 0, 1, 1)],
      [properties |-> Named(<<"a">>, <<"b", "|", "c">>, <<"x">>), geometry |-> Box(1, 1, 2, 2)],
      [properties |-> Named(<<"a">>, <<"c">>, <<"x">>), geometry |-> Box(2, 2, 3, 3)],
      [properties |-> Named(<<"a">>, <<"c">>, <<"y">>), geometry |-> Box(3, 3, 4, 4)],
      [properties |-> Named(<<"c">>, <<"a">>, <<"x">>), geometry |-> Box(4, 4, 5, 5)],
      [geometry |-> Box(5, 5, 6, 6)] }

\* the number of features of the largest collection
MaxIndexFeatures == 2

IndexResponses ==
    {[type |-> "FeatureCollection", features |-> fs, oid |-> 1] :
        fs \in SeqsUpTo(IndexFeatures, MaxIndexFeatures)}

InitIndex == InitWith(IndexResponses)

NextIndex == FetchResolved \/ FetchRejected

SpecIndex == InitIndex /\ [][NextIndex]_vars

\* the features of the collection that have properties
Propertied(d) == {i \in DOMAIN d.features : HasProps(d.features[i])}

\* the (province, municipality) pairs that occur among them
PairsOf(d) ==
    {<<d.features[i].properties.p, d.features[i].properties.m>> : i \in Propertied(d)}

MuniEntriesOf(index, pair) ==
    {k \in DOMAIN index :
        IsMuni(index[k]) /\ index[k].province = pair[1] /\ index[k].municipality = pair[2]}

\* C11 as stated: the index holds exactly one municipality entry for each
\* distinct (province, municipality) pair of the features with properties and
\* exactly one barangay entry per feature with properties, so its length is
\* the number of pairs plus the number of features with properties.
C11_OneEntryPerPair ==
    /\ \A pair \in PairsOf(data) : Cardinality(MuniEntriesOf(searchIndex, pair)) = 1
    /\ \A i \in Propertied(data) :
          Cardinality({k \in DOMAIN searchIndex :
                          IsBrgy(searchIndex[k]) /\ searchIndex[k].oid = i}) = 1
    /\ Len(searchIndex) = Cardinality(PairsOf(data)) + Cardinality(Propertied(data))

(***************************************************************************)
(* SpecSelect: searching and selecting over collections in which some      *)
(* features have no geometry                                               *)
(***************************************************************************)
SelectFeatures ==
    { [properties |-> Named(<<"Q">>, <<"M">>, <<"a">>), geometry |-> Box(0, 0, 1, 1)],
      [properties |-> Named(<<"Q">>, <<"M">>, <<"q">>), geometry |-> Box(2, 3, 4, 5)],
      [properties |-> Named(<<"Q">>, <<"M">>, <<"m">>)],
      [properties |-> Named(<<"Q">>, <<"A">>, <<"m">>)] }

\* the number of features of the largest collection
MaxSelectFeatures == 2

SelectResponses ==
    {[type |-> "FeatureCollection", features |-> fs, oid |-> 1] :
        fs \in SeqsUpTo(SelectFeatures, MaxSelectFeatures)}

InitSelect == InitWith(SelectResponses)

NextSelect ==
    \/ FetchResolved
    \/ \E text \in TypedTexts : InputChange(text)
    \/ \E i \in DOMAIN results : ResultClick(i)
    \/ handleClear
    \/ \E key \in Keys : handleKeyDown(key)

SpecSelect == InitSelect /\ [][NextSelect]_vars

\* the features with a geometry that the selection names
NamedWithGeometry(d, sel) ==
    {i \in DOMAIN d.features :
        /\ HasProps(d.features[i])
        /\ HasGeometry(d.features[i])
        /\ Names(sel, d.features[i].properties)}

\* C12: a change of the search selection to an entry issues one fitBounds call
\* (padding 40, maxZoom 16) if a feature with a geometry matches and none
\* otherwise; a change to no selection issues none; no error is raised and the
\* rest of the application state stays.
C12_OneFitPerSelectionChange ==
    [][searchSelection' # searchSelection =>
          /\ ~io'.error
          /\ IF searchSelection' = NULL
             THEN io'.fitBounds = <<>>
             ELSE /\ Len(io'.fitBounds) =
                        IF NamedWithGeometry(data, searchSelection') # {} THEN 1 ELSE 0
                  /\ \A k \in DOMAIN io'.fitBounds :
                        /\ io'.fitBounds[k].padding = <<40, 40>>
                        /\ io'.fitBounds[k].maxZoom = 16
          /\ UNCHANGED <<data, loading, datasetType, selectedCandidate, highContrast,
                         searchIndex, layerRef, layerSeq, hovered, hoveredProps>>
          /\ DOMAIN layers' = DOMAIN layers]_vars

\* an entry was selected that only a feature without a geometry matches: the
\* layer was restyled for it and no fitBounds call was made
C12_Witness ==
    /\ searchSelection # NULL
    /\ io.restyles = 1
    /\ io.created = 0
    /\ io.fitBounds = <<>>
    /\ NamedWithGeometry(data, searchSelection) = {}
    /\ \E i \in DOMAIN data.features : Names(searchSelection, data.features[i].properties)

(***************************************************************************)
(* Further properties of the dashboard (Spec)                              *)
(***************************************************************************)
\* C13: fitBounds is called only in a step that changes the search selection
\* to an entry: a step that leaves the selection as it is (candidate, dataset
\* type, colour mode, text edit, hover) or clears it calls none.
C13_FitOnlyOnSelection ==
    [][io'.fitBounds # <<>> =>
          searchSelection' # searchSelection /\ searchSelection' # NULL]_vars

\* with an entry selected, the text was edited, the candidate and the colour
\* mode were changed and a feature is hovered, and the last event fitted nothing
C13_Witness ==
    /\ searchSelection # NULL
    /\ query # searchSelection.label
    /\ selectedCandidate # senateCandidates[1]
    /\ ~highContrast
    /\ hoveredProps # NULL
    /\ io.fitBounds = <<>>

(***************************************************************************)
(* Further properties of the style and viewport functions (SpecStyle)      *)
(***************************************************************************)
\* the features of the municipality of the selection that have a geometry
MunicipalityMembers(d, sel) ==
    {i \in DOMAIN d.features :
        /\ HasProps(d.features[i])
        /\ d.features[i].properties.p = sel.province
        /\ d.features[i].properties.m = sel.municipality
        /\ HasGeometry(d.features[i])}

Inside(box, bounds) ==
    /\ bounds.south <= box.south
    /\ bounds.west <= box.west
    /\ box.north <= bounds.north
    /\ box.east <= bounds.east

\* C14: for a municipality-level selection the bounds of the fitBounds call are
\* the smallest box around the boxes of the features of that province and
\* municipality that have a geometry: each of them is inside, each side of the
\* bounds is a side of one of them, and a feature of the municipality without
\* a geometry is left out (no call when none has a geometry).
C14_MunicipalityBounds ==
    IsCall("MapZoomController") /\ probe.refs.search.type = "municipality" =>
        LET members == MunicipalityMembers(geojson, probe.refs.search)
            box(i) == geojson.features[i].geometry
        IN IF members = {} THEN probe.out = <<>>
           ELSE /\ Len(probe.out) = 1
                /\ \A i \in members : Inside(box(i), probe.out[1].bounds)
                /\ \E i \in members : box(i).south = probe.out[1].bounds.south
                /\ \E i \in members : box(i).west = probe.out[1].bounds.west
                /\ \E i \in members : box(i).north = probe.out[1].bounds.north
                /\ \E i \in members : box(i).east = probe.out[1].bounds.east

\* two features of the selected municipality with a geometry, the bounds
\* larger than either box
C14_Witness ==
    /\ IsCall("MapZoomController")
    /\ probe.refs.search.type = "municipality"
    /\ Cardinality(MunicipalityMembers(geojson, probe.refs.search)) = 2
    /\ Len(probe.out) = 1
    /\ \A i \in MunicipalityMembers(geojson, probe.refs.search) :
          geojson.features[i].geometry # probe.out[1].bounds

(***************************************************************************)
(* Properties of the hover handlers (Spec)                                 *)
(***************************************************************************)
\* C15: when the pointer leaves a path, the path gets the policy style of its
\* feature under the selector state current at that moment and the hover sink
\* is called with null; while no path is hovered no tooltip properties are
\* held.
C15_LeaveRestoresPolicyStyle ==
    [][/\ hovered # 0 /\ hovered' = 0 /\ layerRef' # 0 =>
            /\ layers'[hovered].options = getStyle(data'.features[hovered], CurrentRefs')
            /\ io'.hover = <<NULL>>
       /\ hovered' = 0 => hoveredProps' = NULL]_vars

\* the pointer has just left a path, under a selection, a candidate and a
\* colour mode other than the initial ones, and the path is dimmed
C15_Witness ==
    /\ io.hover = <<NULL>>
    /\ hovered = 0
    /\ hoveredProps = NULL
    /\ searchSelection # NULL
    /\ selectedCandidate # senateCandidates[1]
    /\ ~highContrast
    /\ \E i \in DOMAIN layers : layers[i].options.fillOpacity = 15

(***************************************************************************)
(* The life of the search selection (SpecSelect)                           *)
(***************************************************************************)
\* the step is an edit of the search text (the input's onChange opens the
\* dropdown; selecting and clearing close it)
TextEdited == query' # query /\ open'

\* the step is the explicit clear of the search box
SearchCleared == query # <<>> /\ query' = <<>> /\ ~open'

\* C16 as stated: a selection is created by selecting a result; it is cleared
\* by the explicit clear, and by an edit of the text after which the text is no
\* longer the label of the selected entry, and after such an edit no path is
\* highlighted or dimmed.
C16_SelectionLifecycle ==
    [][/\ searchSelection' # searchSelection /\ searchSelection' # NULL =>
            /\ \E k \in DOMAIN results : results[k] = searchSelection'
            /\ query' = searchSelection'.label
       /\ SearchCleared => searchSelection' = NULL
       /\ TextEdited /\ searchSelection # NULL /\ query' # searchSelection.label =>
            /\ searchSelection' = NULL
            /\ \A i \in DOMAIN layers' :
                  HasProps(layers'[i].feature) => layers'[i].options.fillOpacity = 85]_vars

(***************************************************************************)
(* The colour functions called on their own (SpecColor)                    *)
(***************************************************************************)
ColorSteps == 20

\* the shares k/ColorSteps from below 0 to above 1, and the shares whose square
\* root is the position of a stop
ColorShares ==
    {Frac(k, ColorSteps) : k \in (0 - ColorSteps \div 4)..(ColorSteps + ColorSteps \div 4)}
        \cup {Frac(MULTI_HUE_STOPS[i][1] * MULTI_HUE_STOPS[i][1], 10000) : i \in DOMAIN MULTI_HUE_STOPS}

\* the candidates' colours, white, and strings hexToRgb does not match
ColorInputs ==
    {c.color : c \in AllCandidates}
        \cup {<<"#", "f", "f", "f", "f", "f", "f">>, <<"r", "e", "d">>, <<"#", "f", "f", "f">>,
              <<"#", "1", "2", "3", "4", "5", "g">>}

CallGetFillColor(share, color) ==
    /\ probe' = [fn |-> "getFillColor", share |-> share, color |-> color,
                 out |-> getFillColor(share, color)]
    /\ StyleFrame

CallGetMultiHueFillColor(share) ==
    /\ probe' = [fn |-> "getMultiHueFillColor", share |-> share,
                 out |-> getMultiHueFillColor(share)]
    /\ StyleFrame

\* the colour functions read no state: one response is enough
InitColor == InitWith({r \in Responses : r.features = <<>>})

NextColor ==
    \/ \E share \in ColorShares, color \in ColorInputs : CallGetFillColor(share, color)
    \/ \E share \in ColorShares : CallGetMultiHueFillColor(share)

SpecColor == InitColor /\ [][NextColor]_vars

IsColorCall(p) == p.fn \in {"getFillColor", "getMultiHueFillColor"}

\* the two calls are of the same colour mode (and the same base colour)
SameScale(p, q) ==
    /\ IsColorCall(p) /\ p.fn = q.fn
    /\ p.fn = "getFillColor" => p.color = q.color

InUnit(v) == v.n >= 0 /\ v.n <= v.d

FracLeq(x, y) == x.n * y.d <= y.n * x.d

ChannelSum(c) == c.r + c.g + c.b

\* Rec. 601 luma, in thousandths
Luma(c) == 299 * c.r + 587 * c.g + 114 * c.b

\* Math.round(c * 0.08)
LowChannel(c) == (8 * c + 50) \div 100

LowEndpoint(p) ==
    IF p.fn = "getFillColor"
    THEN LET rgb == hexToRgb(p.color)
         IN Rgb(LowChannel(rgb[1]), LowChannel(rgb[2]), LowChannel(rgb[3]))
    ELSE Rgb(10, 10, 30)

HighEndpoint(p) ==
    IF p.fn = "getFillColor"
    THEN LET rgb == hexToRgb(p.color) IN Rgb(rgb[1], rgb[2], rgb[3])
    ELSE Rgb(255, 240, 220)

\* C17 as stated: in both colour modes, for v1 <= v2 in [0,1] the colour of v2
\* is at least as bright as the colour of v1 (channel sum and luma), the colour
\* of 0 is the low endpoint and the colour of 1 is the high endpoint.
C17_BrightnessMonotone ==
    [][/\ SameScale(probe, probe') /\ InUnit(probe.share) /\ InUnit(probe'.share)
          /\ FracLeq(probe.share, probe'.share) =>
              /\ ChannelSum(probe.out) <= ChannelSum(probe'.out)
              /\ Luma(probe.out) <= Luma(probe'.out)
       /\ IsColorCall(probe') /\ probe'.share = Zero => probe'.out = LowEndpoint(probe')
       /\ IsColorCall(probe') /\ probe'.share = One => probe'.out = HighEndpoint(probe')]_vars

\* the colour the called function returns for the value v
ColorFor(p, v) ==
    IF p.fn = "getFillColor" THEN getFillColor(v, p.color) ELSE getMultiHueFillColor(v)

WellFormedRgb(c) ==
    /\ DOMAIN c = {"r", "g", "b"}
    /\ c.r \in 0..255 /\ c.g \in 0..255 /\ c.b \in 0..255

\* C18 as stated: in both colour modes an input above 1 gives the colour of 1,
\* an input below 0 gives the colour of 0, and the output is always an rgb
\* triple of integers in 0..255.
C18_ClampedToUnit ==
    IsColorCall(probe) =>
        /\ WellFormedRgb(probe.out)
        /\ FracGT(probe.share, One) => probe.out = ColorFor(probe, One)
        /\ FracGT(Zero, probe.share) => probe.out = ColorFor(probe, Zero)

(***************************************************************************)
(* The panel statistics (App) and the empty collection (Spec)              *)
(***************************************************************************)
RECURSIVE SumSeq(_)
SumSeq(xs) == IF xs = <<>> THEN 0 ELSE Head(xs) + SumSeq(Tail(xs))

\* the properties of the features the loop does not skip, in order
StatsProps(features) ==
    LET idx == WithProps(features) IN [k \in DOMAIN idx |-> features[idx[k]].properties]

\* the keys of provinceMap in insertion order
ProvinceKeys(ps) ==
    LET first == SelectSeq([i \in DOMAIN ps |-> i],
                           LAMBDA i : \A j \in 1..(i - 1) : ps[j].p # ps[i].p)
    IN [k \in DOMAIN first |-> ps[first[k]].p]

\* the entry of provinceMap for the province name, mapped to {name, votes, share}
ProvinceEntry(ps, cId, name) ==
    LET mine == SelectSeq(ps, LAMBDA props : props.p = name)
        votes == SumSeq([k \in DOMAIN mine |-> VotesOf(mine[k], cId)])
        actual == SumSeq([k \in DOMAIN mine |-> ActualVotersOf(mine[k])])
    IN [name |-> name, votes |-> votes,
        share |-> IF actual > 0 THEN Frac(100 * votes, actual) ELSE Zero]

\* .sort((a, b) => b.votes - a.votes): stable, descending by votes
SortByVotes(es) ==
    LET rank(i) == 1 + Cardinality({j \in DOMAIN es :
                        \/ es[j].votes > es[i].votes
                        \/ es[j].votes = es[i].votes /\ j < i})
    IN [k \in DOMAIN es |-> es[CHOOSE i \in DOMAIN es : rank(i) = k]]

TopProvinces == 5

NoStats == [totalVotes |-> 0, avgShare |-> Zero, topProvinces |-> <<>>]

\* the stats memo of App, for the current data and selected candidate
StatsMemo(d, candidate) ==
    IF Len(d.features) = 0 \/ candidate = NULL THEN NoStats
    ELSE LET ps == StatsProps(d.features)
             totalVotes == SumSeq([k \in DOMAIN ps |-> VotesOf(ps[k], candidate.id)])
             totalActual == SumSeq([k \in DOMAIN ps |-> ActualVotersOf(ps[k])])
             keys == ProvinceKeys(ps)
             sorted == SortByVotes([k \in DOMAIN keys |-> ProvinceEntry(ps, candidate.id, keys[k])])
         IN [totalVotes |-> totalVotes,
             avgShare |-> IF totalActual > 0 THEN Frac(100 * totalVotes, totalActual) ELSE Zero,
             topProvinces |-> SubSeq(sorted, 1, MinOf(TopProvinces, Len(sorted)))]

stats == StatsMemo(data, selectedCandidate)

\* what every component shows for an empty collection
EmptyCollectionState ==
    /\ layerRef = 0 /\ layers = NoLayers /\ io.created = 0
    /\ hovered = 0 /\ hoveredProps = NULL
    /\ \A i \in 1..MaxFeatures : ~ENABLED mouseover(i)
    /\ searchIndex = <<>> /\ results = <<>>
    /\ \A text \in TypedTexts : ResultsMemo(text, searchIndex) = <<>>
    /\ io.fitBounds = <<>>
    /\ \A sel \in StyleSelections \ {NULL} : ZoomEffect(data, sel) = <<>>
    /\ \A c \in AllCandidates : StatsMemo(data, c) = NoStats
    /\ stats = NoStats
    /\ ~io.error

\* C19: while the collection is empty no layer exists and no hover handler can
\* fire, the index is empty and every query has no result, no fitBounds is
\* issued, the statistics are all zero and no error is raised; the collection
\* is empty until the load completes, and stays empty after a failed load.
C19_EmptyCollection ==
    /\ [](data.features = <<>> => EmptyCollectionState)
    /\ [](loading => data.features = <<>>)
    /\ [][~loading /\ data.features = <<>> => data'.features = <<>>]_vars

\* the load of a non-empty collection has failed, and the user has typed a
\* query and chosen another candidate since
C19_Witness ==
    /\ ~loading /\ data.features = <<>> /\ geojson.features # <<>>
    /\ query # <<>> /\ Trim(query) # <<>> /\ open
    /\ selectedCandidate # senateCandidates[1]
    /\ EmptyCollectionState

(***************************************************************************)
(* Restyling twice with the same props (SpecRestyle)                       *)
(***************************************************************************)
\* the choropleth component before it is mounted
Unmounted ==
    [refs |-> NoRefs, layerRef |-> 0, layerSeq |-> 0, layers |-> NoLayers, hovered |-> 0,
     scans |-> 0, restyles |-> 0, created |-> 0, removed |-> 0]

NoData == [type |-> "FeatureCollection", features |-> <<>>, oid |-> 0]

\* the component after it is mounted with the props, and the pointer is over
\* the path hov (0: over none)
MountedWith(props, hov) ==
    LET C == CommitChoropleth(Unmounted, [props EXCEPT !.data = NoData], props)
    IN IF hov \in DOMAIN C.layers
       THEN [C EXCEPT !.layers[hov].options = SetPathStyle(@, HoverStyle), !.hovered = hov]
       ELSE C

\* the cells of the component and its layer
Renderer(C) ==
    [refs |-> C.refs, layerRef |-> C.layerRef, layerSeq |-> C.layerSeq,
     layers |-> C.layers, hovered |-> C.hovered]

\* both restyling effects, in the order React runs them, twice over (one call
\* in a behaviour: its result does not depend on an earlier call)
CallRestyleTwice(before, hov, props) ==
    /\ Len(geojson.features) > 0
    /\ probe = NoProbe
    /\ \E C0 \in {MountedWith(before, hov)} :
       \E S1 \in {StyleEffect(C0, props)} : \E C1 \in {SearchEffect(S1, props)} :
       \E S2 \in {StyleEffect(C1, props)} : \E C2 \in {SearchEffect(S2, props)} :
          probe' = [fn |-> "restyle", props |-> props, hov |-> hov,
                    before |-> Renderer(C0), first |-> Renderer(C1),
                    second |-> Renderer(C2)]
    /\ StyleFrame

RestyleSelections == {sel \in StyleSelections : sel.type \in {"null", "municipality"}}

InitRestyle == InitWith(Responses)

NextRestyle ==
    \E c0 \in AllCandidates, s0 \in RestyleSelections, h0 \in BOOLEAN,
       hov \in 0..Len(geojson.features),
       c \in AllCandidates, sel \in RestyleSelections, hc \in BOOLEAN :
          CallRestyleTwice(PropsOf(geojson, c0, s0, h0), hov, PropsOf(geojson, c, sel, hc))

SpecRestyle == InitRestyle /\ [][NextRestyle]_vars

\* C20: a second restyle with the same candidate, colour, colour mode, search
\* selection and collection gives every path the style the first gave it, and
\* leaves the candidate, colour, colour-mode, search and max-share cells and
\* the layer as the first left them.
C20_RestyleIdempotent ==
    IsCall("restyle") =>
        /\ probe.second = probe.first
        /\ \A i \in DOMAIN probe.first.layers :
              probe.second.layers[i].options = probe.first.layers[i].options
        /\ probe.second.refs = RefsFor(probe.props.data, [id |-> probe.props.candidateId,
                                                         color |-> probe.props.color],
                                       probe.props.searchSelection, probe.props.highContrast)

\* the first restyle changed the styles (another candidate, another selection,
\* a hovered path), and the second was applied to its result
C20_Witness ==
    /\ IsCall("restyle")
    /\ probe.hov \in DOMAIN probe.before.layers
    /\ probe.before.refs.candidateId # probe.first.refs.candidateId
    /\ probe.before.refs.search # probe.first.refs.search
    /\ \E i \in DOMAIN probe.first.layers :
          i # probe.hov /\ probe.before.layers[i].options # probe.first.layers[i].options
    /\ probe.second = probe.first

(***************************************************************************)
(* When the max-share scan runs (Spec)                                     *)
(***************************************************************************)
\* C21 as stated: computeMaxShare runs only in a step that changes the selected
\* candidate or builds the layer; a change of the search selection and a
\* toggle of the colour mode each restyle the built layer without running it.
C21_ScanOnlyOnCandidateChange ==
    [][/\ io'.scans > 0 => selectedCandidate' # selectedCandidate \/ io'.created > 0
       /\ searchSelection' # searchSelection /\ layerRef' # 0 =>
             io'.restyles > 0 /\ io'.scans = 0
       /\ highContrast' # highContrast /\ layerRef' # 0 =>
             io'.restyles > 0 /\ io'.scans = 0]_vars

(***************************************************************************)
(* The max share in use (Spec)                                             *)
(***************************************************************************)
\* the features of the current collection that have properties
WithShares == {i \in DOMAIN data.features : HasProps(data.features[i])}

\* the normalized share getStyle computes for feature i from the cells
NormalizedInUse(i) ==
    NormalizedOf(data.features[i].properties, refs.candidateId, refs.maxShare)

\* C22: while a layer exists, the candidate cell holds the selected candidate
\* and the max-share cell holds computeMaxShare of that candidate over the
\* current collection; so every feature's normalized share is in [0,1], a path
\* that is not hovered is filled with the colour of that normalized share, and
\* when some feature has a positive share some feature has normalized share 1.
C22_MaxShareOfCurrentCandidate ==
    layerRef # 0 =>
        /\ refs.candidateId = selectedCandidate.id
        /\ refs.maxShare = computeMaxShare(data, refs.candidateId)
        /\ \A i \in WithShares :
              /\ FracLeq(Zero, NormalizedInUse(i)) /\ FracLeq(NormalizedInUse(i), One)
              /\ i \in DOMAIN layers /\ i # hovered =>
                    layers[i].options.fillColor = ColorScale(NormalizedInUse(i), refs)
        /\ (\E i \in WithShares :
               FracGT(ShareOf(data.features[i].properties, refs.candidateId), Zero)) =>
              /\ \E i \in WithShares : NormalizedInUse(i) = One
              /\ \A i \in WithShares :
                    NormalizedInUse(i) = One <=>
                        \A j \in WithShares :
                            ~FracGT(ShareOf(data.features[j].properties, refs.candidateId),
                                    ShareOf(data.features[i].properties, refs.candidateId))

\* the candidate was changed after the layer was built, to one whose max share
\* differs from the first candidate's and is below 1; a path was left by the
\* pointer in the last step and a feature has normalized share 1, another less
C22_Witness ==
    /\ layerRef # 0 /\ hovered = 0 /\ io.hover = <<NULL>>
    /\ selectedCandidate.id = "p01"
    /\ refs.maxShare # computeMaxShare(data, "s01")
    /\ FracGT(One, refs.maxShare)
    /\ \E i, j \in WithShares :
          NormalizedInUse(i) = One /\ FracGT(One, NormalizedInUse(j))

(***************************************************************************)
(* The single-hue scale (SpecColor)                                        *)
(***************************************************************************)
\* the string is six hex digits, with an optional leading '#'
IsHex6(str) ==
    LET body == IF Len(str) = 7 /\ str[1] = "#" THEN Tail(str) ELSE str
    IN /\ Len(body) = 6
       /\ \A i \in 1..6 : body[i] \in Range(DigitChars) \cup {"a", "b", "c", "d", "e", "f",
                                                          "A", "B", "C", "D", "E", "F"}

\* k = round(base * (0.08 + 0.92 * sqrt(v))), that is
\* 100k - 50 <= 8*base + 92*base*sqrt(v) < 100k + 50, without a square root
IsRoundedChannel(k, base, v) ==
    LET X == 100 * k - 50 - 8 * base
        Y == 100 * k + 50 - 8 * base
    IN IF base = 0 THEN k = 0
       ELSE /\ X <= 0 \/ QLeq(X * X, 8464 * base * base, v.n, v.d)
            /\ Y > 0 /\ ~QLeq(Y * Y, 8464 * base * base, v.n, v.d)

ChannelsOf(c) == <<c.r, c.g, c.b>>

\* C23: for v in [0,1] each channel of getFillColor is round(base * (0.08 +
\* 0.92 * sqrt(v))), lies between round(0.08 * base) and base, and does not
\* decrease when v grows; a colour string that is not six hex digits (with an
\* optional '#') gives what the default rgb(251,146,60) gives.
C23_SingleHueChannels ==
    [][/\ probe'.fn = "getFillColor" /\ InUnit(probe'.share) =>
             LET base == IF IsHex6(probe'.color) THEN hexToRgb(probe'.color)
                         ELSE <<251, 146, 60>>
                 out == ChannelsOf(probe'.out)
             IN \A ch \in 1..3 :
                   /\ IsRoundedChannel(out[ch], base[ch], probe'.share)
                   /\ LowChannel(base[ch]) <= out[ch] /\ out[ch] <= base[ch]
       /\ probe'.fn = "getFillColor" /\ ~IsHex6(probe'.color) =>
             probe'.out = getFillColor(probe'.share, <<"#", "f", "b", "9", "2", "3", "c">>)
       /\ (/\ probe.fn = "getFillColor" /\ SameScale(probe, probe')
           /\ InUnit(probe.share) /\ InUnit(probe'.share)
           /\ FracLeq(probe.share, probe'.share)) =>
             \A ch \in 1..3 : ChannelsOf(probe.out)[ch] <= ChannelsOf(probe'.out)[ch]]_vars

\* a call with a colour string that is not a hex value and a value strictly
\* inside (0,1), whose output is strictly between the two ends
C23_Witness ==
    /\ probe.fn = "getFillColor" /\ ~IsHex6(probe.color) /\ Len(probe.color) = 7
    /\ FracGT(probe.share, Zero) /\ FracGT(One, probe.share)
    /\ probe.out.r > LowChannel(251) /\ probe.out.r < 251

(***************************************************************************)
(* The multi-hue scale (SpecColor)                                         *)
(***************************************************************************)
\* sqrt(v) is the position pos (in hundredths)
RootIs(v, pos) == 10000 * v.n = pos * pos * v.d

Between(x, a, b) == (a <= x /\ x <= b) \/ (b <= x /\ x <= a)

\* the stops are strictly increasing in position, from 0.0 to 1.0, and eight
StopsIncreasing ==
    /\ Len(MULTI_HUE_STOPS) = 8
    /\ MULTI_HUE_STOPS[1][1] = 0 /\ MULTI_HUE_STOPS[8][1] = 100
    /\ \A i \in 1..7 : MULTI_HUE_STOPS[i][1] < MULTI_HUE_STOPS[i + 1][1]

\* C24: the stops are 8 with strictly increasing positions from 0.0 to 1.0; for
\* v in [0,1] the scan of getMultiHueFillColor ends on two adjacent stops with
\* lo.position <= sqrt(v) <= hi.position, whose positions differ, each output
\* channel lies between the channels of lo and hi, and when sqrt(v) is the
\* position of a stop the output is that stop's colour.
C24_MultiHueStops ==
    /\ StopsIncreasing
    /\ probe.fn = "getMultiHueFillColor" /\ InUnit(probe.share) =>
          LET stops == FindStops(probe.share, 1)
              lo == stops[1]
              hi == stops[2]
              out == ChannelsOf(probe.out)
          IN /\ \E i \in 1..7 : lo = MULTI_HUE_STOPS[i] /\ hi = MULTI_HUE_STOPS[i + 1]
             /\ 10000 * probe.share.n >= lo[1] * lo[1] * probe.share.d
             /\ 10000 * probe.share.n <= hi[1] * hi[1] * probe.share.d
             /\ hi[1] - lo[1] # 0
             /\ \A ch \in 1..3 : Between(out[ch], lo[ch + 1], hi[ch + 1])
             /\ \A i \in 1..8 :
                   RootIs(probe.share, MULTI_HUE_STOPS[i][1]) =>
                       out = SubSeq(MULTI_HUE_STOPS[i], 2, 4)

\* a call whose sqrt(v) is the position of an inner stop, where two adjacent
\* brackets meet
C24_Witness ==
    /\ probe.fn = "getMultiHueFillColor"
    /\ RootIs(probe.share, 75) /\ probe.out = Rgb(240, 180, 30)

(***************************************************************************)
(* The selected candidate (Spec)                                           *)
(***************************************************************************)
\* what neither a dataset-tab click nor a candidate click changes
KeptByPanelClicks == UNCHANGED <<data, searchIndex, searchSelection, highContrast>>

\* C25: the dashboard starts on senate with the first senate candidate; at all
\* times the selected candidate is exactly one entry of the candidate list of
\* the active dataset type; a dataset-tab click makes its type active and
\* selects the first candidate of its list, also when it was active already; a
\* dataset-tab click and a candidate click leave the feature collection, the
\* search index, the search selection and the colour mode as they were.
C25_OneCandidateOfActiveDataset ==
    /\ datasetType = "senate" /\ selectedCandidate = senateCandidates[1]
    /\ [](/\ selectedCandidate \in Range(CandidatesOf(datasetType))
          /\ Cardinality({k \in DOMAIN CandidatesOf(datasetType) :
                             CandidatesOf(datasetType)[k].id = selectedCandidate.id}) = 1)
    /\ [][/\ datasetType' # datasetType => selectedCandidate' = CandidatesOf(datasetType')[1]
          /\ datasetType' # datasetType \/ selectedCandidate' # selectedCandidate =>
                KeptByPanelClicks
          /\ \A type \in {"senate", "partylist"} :
                handleDatasetChange(type) =>
                    /\ datasetType' = type
                    /\ selectedCandidate' = CandidatesOf(type)[1]
                    /\ KeptByPanelClicks
          /\ \A k \in DOMAIN CandidatesOf(datasetType) :
                CandidateSelect(CandidatesOf(datasetType)[k]) =>
                    /\ datasetType' = datasetType
                    /\ selectedCandidate' = CandidatesOf(datasetType)[k]
                    /\ KeptByPanelClicks]_vars

\* the partylist tab was clicked in the last step, while a collection was
\* loaded, a search selection was set and the single-hue mode was on
C25_Witness ==
    /\ datasetType = "partylist" /\ selectedCandidate = partylistCandidates[1]
    /\ io.scans > 0 /\ io.created = 0
    /\ data.features # <<>> /\ searchSelection # NULL /\ ~highContrast

(***************************************************************************)
(* The highlighted result of the dropdown (Spec)                           *)
(***************************************************************************)
KeyHandled == open /\ results # <<>>

\* the highlighted index is inside a non-empty result list; no key raised an error
IndexInRange ==
    /\ results # <<>> => 0 <= selectedIndex /\ selectedIndex < Len(results)
    /\ ~io.error

\* the index is 0 after every change of the result list; with the dropdown open
\* and results present ArrowDown moves to the next result and stops at the
\* last, ArrowUp moves to the previous and stops at 0, Enter selects the
\* highlighted result; otherwise Enter and the arrows change nothing
IndexAndKeysStep ==
    /\ results' # results => selectedIndex' = 0
    /\ handleKeyDown("ArrowDown") /\ KeyHandled =>
          selectedIndex' = MinOf(selectedIndex + 1, Len(results) - 1)
    /\ handleKeyDown("ArrowUp") /\ KeyHandled =>
          selectedIndex' = MaxOf(selectedIndex - 1, 0)
    /\ handleKeyDown("Enter") /\ KeyHandled =>
          /\ \E k \in DOMAIN results : k = selectedIndex + 1 /\ searchSelection' = results[k]
          /\ query' = searchSelection'.label /\ ~open'
    /\ \A key \in {"ArrowDown", "ArrowUp", "Enter"} :
          handleKeyDown(key) /\ ~KeyHandled =>
              UNCHANGED <<appVars, searchVars, hoveredProps, layerVars>>

\* C26 as stated: a non-empty result list has 0 <= selectedIndex <
\* results.length, the arrows saturate, the index is reset to 0 when the list
\* changes, Enter selects an existing result, Enter and the arrows do nothing
\* when the dropdown is closed or the list is empty, and Escape always closes
\* the dropdown and keeps the search selection.
C26_EscapeAlwaysCloses ==
    /\ []IndexInRange
    /\ [][/\ IndexAndKeysStep
          /\ handleKeyDown("Escape") =>
                ~open' /\ UNCHANGED <<appVars, query, results, selectedIndex, layerVars>>]_vars

\* C26, amended: as above, but Escape closes the dropdown and keeps the search
\* selection when the dropdown is open with results; when the dropdown is
\* closed or the list is empty Escape, like the other keys, changes nothing
\* (the open flag stays as it was).
C26_HighlightedIndexInRange ==
    /\ []IndexInRange
    /\ [][/\ IndexAndKeysStep
          /\ handleKeyDown("Escape") /\ KeyHandled =>
                ~open' /\ UNCHANGED <<appVars, query, results, selectedIndex, layerVars>>
          /\ handleKeyDown("Escape") /\ ~KeyHandled =>
                UNCHANGED <<appVars, searchVars, hoveredProps, layerVars>>]_vars

\* ArrowDown has reached the last of several results, after an earlier
\* selection by Enter or click and a new text
C26_Witness ==
    /\ open /\ Len(results) >= 2 /\ selectedIndex = Len(results) - 1
    /\ searchSelection # NULL /\ query # searchSelection.label

=============================================================================
